---- MODULE Spec2Model ----
(***************************************************************************)
(* Model of the leads_app reconciliation code: phone canonicalisation,     *)
(* duration parsing, update-column merging and the per-kind file merges    *)
(* of helpers/data_cleaning.py and merged_app.py.                          *)
(*                                                                         *)
(* Text values are sequences of one-character strings.  The pandas missing *)
(* value and Python's None are the two reserved cells NaN and None.        *)
(***************************************************************************)
EXTENDS Integers, Sequences, FiniteSets, TLC

VARIABLES
    phone_str,      \* the raw phone value handed to the canonicalisers
    phone_trace,    \* the calls made on it so far: <<[op, arg, val], ...>>
    duration_str,   \* the raw duration value handed to the parsers
    duration_out,   \* the calls made on it: <<[op, res], ...>>
    update_row,     \* a row's update cells, in table-column order
    update_out,     \* the merged update texts: <<[op, text], ...>>
    kind,           \* kind of the source files: "leads", "updates", "calls"
    files,          \* the ordered list of source files of that kind
    op,             \* the merge operation that ran ("none" before it)
    merged,         \* what the merge operation returned
    header,         \* a file name or column header handed to a classifier
    role,           \* the classifications made of it: <<[op, val], ...>>
    run,            \* the applications: clock, timestamps, runs made
    disk            \* the output tables written: [dir, file, run] records

vars == <<phone_str, phone_trace, duration_str, duration_out,
          update_row, update_out, kind, files, op, merged,
          header, role, run, disk>>

----------------------------------------------------------------------------
(* Bounds of the explored inputs.                                          *)

MaxPre == 3
MaxBody == 12
MaxSuf == 3
MaxApply == 2

----------------------------------------------------------------------------
(* Text helpers (Python str / re operations used by the code).             *)

NaN == <<"<NaN>">>
None == <<"<None>">>

isna(v) == v = NaN \/ v = None

Digits == {"0", "1", "2", "3", "4", "5", "6", "7", "8", "9"}

SeqsUpTo(S, n) == UNION {[1..k -> S] : k \in 0..n}

IsDigit(c) == c \in Digits

\* re.sub(r'\D', '', s) and re.sub(r'[^\d]', '', s)
OnlyDigits(s) == SelectSeq(s, IsDigit)

RECURSIVE rstrip0(_)
\* str.rstrip('0')
rstrip0(s) ==
    IF s # <<>> /\ s[Len(s)] = "0" THEN rstrip0(SubSeq(s, 1, Len(s) - 1)) ELSE s

\* str.startswith(p)
startswith(s, p) == Len(s) >= Len(p) /\ SubSeq(s, 1, Len(p)) = p

\* s[n:]
From(s, n) == SubSeq(s, n + 1, Len(s))

\* s[-n:]
Last(s, n) == IF Len(s) <= n THEN s ELSE SubSeq(s, Len(s) - n + 1, Len(s))

IsSpace(c) == c \in {" ", "\t"}

RECURSIVE lstrip(_)
lstrip(s) == IF s # <<>> /\ IsSpace(s[1]) THEN lstrip(Tail(s)) ELSE s

RECURSIVE rstrip(_)
rstrip(s) ==
    IF s # <<>> /\ IsSpace(s[Len(s)]) THEN rstrip(SubSeq(s, 1, Len(s) - 1)) ELSE s

\* str.strip()
strip(s) == lstrip(rstrip(s))

\* the 'in' test of a substring
Contains(s, p) ==
    \E i \in 0..(Len(s) - Len(p)) : SubSeq(s, i + 1, i + Len(p)) = p

----------------------------------------------------------------------------
(* Phone canonicalisation.                                                 *)

\* The variant in which a too-short 94-number is prefixed instead of being
\* handed back unchanged.
standardize_phone_number_prefix_short(p) ==
    IF isna(p) \/ p = <<>> THEN p
    ELSE LET clean_number == rstrip0(OnlyDigits(p)) IN
         IF clean_number = <<>> THEN p
         ELSE IF startswith(clean_number, <<"9", "4">>) THEN
                  IF Len(clean_number) >= 9 THEN clean_number
                  ELSE <<"9", "4">> \o clean_number
         ELSE IF Len(clean_number) = 9 THEN <<"9", "4">> \o clean_number
         ELSE IF Len(clean_number) = 10 /\ startswith(clean_number, <<"0">>)
              THEN <<"9", "4">> \o From(clean_number, 1)
         ELSE IF Len(clean_number) = 7 THEN <<"9", "4">> \o clean_number
         ELSE IF Len(clean_number) > 9 THEN <<"9", "4">> \o Last(clean_number, 9)
         ELSE <<"9", "4">> \o clean_number

\* The variant that leaves trailing zeros in place.
standardize_phone_number_keep_zeros(p) ==
    IF isna(p) \/ p = <<>> THEN p
    ELSE LET clean_number == OnlyDigits(p) IN
         IF clean_number = <<>> THEN p
         ELSE IF startswith(clean_number, <<"9", "4">>) THEN
                  IF Len(clean_number) >= 9 THEN clean_number
                  ELSE p
         ELSE IF Len(clean_number) = 9 THEN <<"9", "4">> \o clean_number
         ELSE IF Len(clean_number) = 10 /\ startswith(clean_number, <<"0">>)
              THEN <<"9", "4">> \o From(clean_number, 1)
         ELSE IF Len(clean_number) = 7 THEN <<"9", "4">> \o clean_number
         ELSE IF Len(clean_number) > 9 THEN <<"9", "4">> \o Last(clean_number, 9)
         ELSE <<"9", "4">> \o clean_number

\* UnifiedProcessor.standardize_phone_number (the same text is in
\* CallLogProcessor and LeadsProcessor): international form.
standardize_phone_number(p) ==
    IF isna(p) \/ p = <<>> THEN p
    ELSE LET clean_number == rstrip0(OnlyDigits(p)) IN
         IF clean_number = <<>> THEN p
         ELSE IF startswith(clean_number, <<"9", "4">>) THEN
                  IF Len(clean_number) >= 9 THEN clean_number
                  ELSE p
         ELSE IF Len(clean_number) = 9 THEN <<"9", "4">> \o clean_number
         ELSE IF Len(clean_number) = 10 /\ startswith(clean_number, <<"0">>)
              THEN <<"9", "4">> \o From(clean_number, 1)
         ELSE IF Len(clean_number) = 7 THEN <<"9", "4">> \o clean_number
         ELSE IF Len(clean_number) > 9 THEN <<"9", "4">> \o Last(clean_number, 9)
         ELSE <<"9", "4">> \o clean_number

\* the literals clean_phone_number and clean_email treat as missing
MissingLiterals ==
    {<<>>, <<"n", "a", "n">>, <<"N", "o", "n", "e">>, <<"n", "u", "l", "l">>}

\* The variant without the final length/shape validation.
clean_phone_number_unvalidated(phone) ==
    IF isna(phone) \/ phone \in MissingLiterals THEN None
    ELSE LET digits == OnlyDigits(strip(phone))
             cleaned ==
                 IF startswith(digits, <<"9", "4">>) THEN <<"0">> \o From(digits, 2)
                 ELSE IF startswith(digits, <<"+", "9", "4">>)
                      THEN <<"0">> \o From(digits, 3)
                 ELSE IF Len(digits) = 9 /\ ~startswith(digits, <<"0">>)
                      THEN <<"0">> \o digits
                 ELSE digits
         IN  cleaned

\* DataCleaner.clean_phone_number: domestic form or None.
clean_phone_number(phone) ==
    IF isna(phone) \/ phone \in MissingLiterals THEN None
    ELSE LET digits == OnlyDigits(strip(phone))
             cleaned ==
                 IF startswith(digits, <<"9", "4">>) THEN <<"0">> \o From(digits, 2)
                 ELSE IF startswith(digits, <<"+", "9", "4">>)
                      THEN <<"0">> \o From(digits, 3)
                 ELSE IF Len(digits) = 9 /\ ~startswith(digits, <<"0">>)
                      THEN <<"0">> \o digits
                 ELSE digits
         IN  IF Len(cleaned) = 10 /\ startswith(cleaned, <<"0">>)
             THEN cleaned ELSE None

----------------------------------------------------------------------------
(* Phone inputs: a prefix, a run of subscriber digits and a suffix.        *)

PrefixChars == {"0", "9", "4", "+"}
SuffixChars == {"0", "."}
BodyPattern == <<"7", "7", "1", "2", "3", "4", "5", "6", "7">>

Body(k) == [i \in 1..k |-> BodyPattern[((i - 1) % Len(BodyPattern)) + 1]]

PhoneInputs ==
    {pre \o Body(k) \o suf :
        pre \in SeqsUpTo(PrefixChars, MaxPre),
        k \in 0..MaxBody,
        suf \in SeqsUpTo(SuffixChars, MaxSuf)}
    \cup {NaN} \cup MissingLiterals

\* the value the next call is applied to
PhoneCurrent ==
    IF phone_trace = <<>> THEN phone_str ELSE phone_trace[Len(phone_trace)].val

IdlePhone == phone_str = <<>> /\ phone_trace = <<>>
IdleDuration == duration_str = <<>> /\ duration_out = <<>>
IdleUpdates == update_row = <<>> /\ update_out = <<>>
IdleMerge == kind = "none" /\ files = <<>> /\ op = "none" /\ merged = <<>>
IdleClassify == header = <<>> /\ role = <<>>
IdleRun == run = <<>> /\ disk = {}

InitPhone ==
    /\ phone_str \in PhoneInputs
    /\ phone_trace = <<>>
    /\ IdleDuration /\ IdleUpdates /\ IdleMerge /\ IdleClassify /\ IdleRun

\* one call of standardize_phone_number on the current value
Standardize ==
    /\ Len(phone_trace) < MaxApply
    /\ phone_trace' = Append(phone_trace,
           [op |-> "standardize", arg |-> PhoneCurrent,
            val |-> standardize_phone_number(PhoneCurrent)])
    /\ UNCHANGED <<header, role, run, disk, phone_str, duration_str, duration_out, update_row,
                   update_out, kind, files, op, merged>>

\* one call of clean_phone_number on the current value
CleanPhone ==
    /\ Len(phone_trace) < MaxApply
    /\ phone_trace' = Append(phone_trace,
           [op |-> "clean", arg |-> PhoneCurrent,
            val |-> clean_phone_number(PhoneCurrent)])
    /\ UNCHANGED <<header, role, run, disk, phone_str, duration_str, duration_out, update_row,
                   update_out, kind, files, op, merged>>

NextPhone == Standardize \/ CleanPhone

SpecPhone == InitPhone /\ [][NextPhone]_vars

----------------------------------------------------------------------------
(* Phone claims.                                                           *)

P0771234567 == <<"0", "7", "7", "1", "2", "3", "4", "5", "6", "7">>
P94771234567 == <<"9", "4", "7", "7", "1", "2", "3", "4", "5", "6", "7">>
P94771234567000 == P94771234567 \o <<"0", "0", "0">>

\* C2: standardize_phone_number applied to its own result returns that
\* result again, for every input, also when the first call handed the
\* original value back unchanged.
C2_Idempotent ==
    \A i \in 1..(Len(phone_trace) - 1) :
        (phone_trace[i].op = "standardize" /\ phone_trace[i + 1].op = "standardize")
            => phone_trace[i + 1].val = phone_trace[i].val

\* a second call on a number the first call really rewrote
C2_Witness ==
    /\ phone_str = P0771234567
    /\ Len(phone_trace) = 2
    /\ phone_trace[1].op = "standardize" /\ phone_trace[2].op = "standardize"
    /\ phone_trace[1].val = P94771234567

\* C3: non-digits and then trailing zeros are stripped before any prefix
\* rule; a 10-digit remainder beginning with 0 gets 94 in place of the 0, a
\* remainder beginning with 94 of at least 9 digits is returned as is;
\* "0771234567" gives "94771234567", "94771234567000" gives "94771234567".
C3_InternationalRules ==
    \A i \in 1..Len(phone_trace) :
        LET a == phone_trace[i].arg
            v == phone_trace[i].val
            c == rstrip0(OnlyDigits(a))
        IN  (phone_trace[i].op = "standardize" /\ ~isna(a) /\ a # <<>>) =>
                /\ (Len(c) = 10 /\ c[1] = "0") => v = <<"9", "4">> \o Tail(c)
                /\ (startswith(c, <<"9", "4">>) /\ Len(c) >= 9) => v = c
                /\ a = P0771234567 => v = P94771234567
                /\ a = P94771234567000 => v = P94771234567

\* the padded number has been canonicalised
C3_Witness ==
    /\ phone_str = P94771234567000
    /\ Len(phone_trace) = 1
    /\ phone_trace[1].op = "standardize"
    /\ phone_trace[1].val = P94771234567

\* C4: clean_phone_number returns None or exactly 10 digits beginning with
\* 0; a leading 94 is replaced by a single 0, so "94771234567" gives
\* "0771234567".
C4_DomesticShape ==
    \A i \in 1..Len(phone_trace) :
        LET a == phone_trace[i].arg
            v == phone_trace[i].val
        IN  phone_trace[i].op = "clean" =>
                /\ \/ v = None
                   \/ /\ Len(v) = 10
                      /\ v[1] = "0"
                      /\ \A j \in 1..Len(v) : v[j] \in Digits
                /\ a = P94771234567 => v = P0771234567
                /\ (~isna(a) /\ v # None /\ startswith(OnlyDigits(a), <<"9", "4">>))
                       => v = <<"0">> \o From(OnlyDigits(a), 2)

\* a 94-number turned domestic, and a wrong-length number rejected
C4_Witness ==
    /\ Len(phone_trace) = 2
    /\ phone_trace[1].op = "clean" /\ phone_trace[2].op = "clean"
    /\ phone_trace[1].arg = P94771234567
    /\ phone_trace[1].val = P0771234567

\* a value of the wrong length is dropped to None
C4_WitnessInvalid ==
    /\ Len(phone_trace) = 1
    /\ phone_trace[1].op = "clean"
    /\ Len(OnlyDigits(phone_trace[1].arg)) = 8
    /\ phone_trace[1].val = None

----------------------------------------------------------------------------
(* Duration parsing.                                                       *)

\* Outcomes of a Python call: a returned number, a returned float NaN, a
\* propagated exception, or (inside a try block) falling off its end.
Value(n) == [kind |-> "value", val |-> n]
NanValue == [kind |-> "nan", val |-> 0]
Raise == [kind |-> "raise", val |-> 0]
Fall == [kind |-> "fall", val |-> 0]

\* a numeric (int/float) cell holding the whole number written by ds
Num(ds) == <<"<num>">> \o ds
IsNum(v) == v # <<>> /\ v[1] = "<num>"

DigitChars == <<"0", "1", "2", "3", "4", "5", "6", "7", "8", "9">>
DigitVal(c) == CHOOSE n \in 0..9 : DigitChars[n + 1] = c

IsNumeral(s) == s # <<>> /\ \A i \in 1..Len(s) : s[i] \in Digits

RECURSIVE to_int(_)
to_int(s) ==
    IF s = <<>> THEN 0
    ELSE to_int(SubSeq(s, 1, Len(s) - 1)) * 10 + DigitVal(s[Len(s)])

\* int(s) and float(s) of a text: surrounding whitespace is allowed, anything
\* but a digit string raises ValueError (the inputs carry no sign, point,
\* exponent or underscore).
int(s) == IF IsNumeral(strip(s)) THEN Value(to_int(strip(s))) ELSE Raise
float(s) == int(s)

UpperChars == <<"A", "B", "C", "D", "E", "F", "G", "H", "I", "J", "K", "L", "M",
                "N", "O", "P", "Q", "R", "S", "T", "U", "V", "W", "X", "Y", "Z">>
LowerChars == <<"a", "b", "c", "d", "e", "f", "g", "h", "i", "j", "k", "l", "m",
                "n", "o", "p", "q", "r", "s", "t", "u", "v", "w", "x", "y", "z">>

IsUpper(c) == \E i \in 1..26 : UpperChars[i] = c
IsLower(c) == \E i \in 1..26 : LowerChars[i] = c
ToLower(c) == IF IsUpper(c) THEN LowerChars[CHOOSE i \in 1..26 : UpperChars[i] = c] ELSE c
ToUpper(c) == IF IsLower(c) THEN UpperChars[CHOOSE i \in 1..26 : LowerChars[i] = c] ELSE c

\* str.lower()
lower(s) == [i \in 1..Len(s) |-> ToLower(s[i])]

\* index of the first element satisfying Test, Len(s) + 1 when there is none
FirstIdx(s, Test(_)) ==
    IF \E i \in 1..Len(s) : Test(s[i])
    THEN CHOOSE i \in 1..Len(s) : Test(s[i]) /\ \A j \in 1..(i - 1) : ~Test(s[j])
    ELSE Len(s) + 1

RECURSIVE split(_)
\* str.split(): the whitespace-separated tokens
split(s) ==
    LET t == lstrip(s)
        n == FirstIdx(t, IsSpace)
    IN  IF t = <<>> THEN <<>>
        ELSE <<SubSeq(t, 1, n - 1)>> \o split(From(t, n - 1))

RECURSIVE split_on(_, _)
\* str.split(c): the fields between occurrences of c, empty ones included
split_on(s, c) ==
    LET n == FirstIdx(s, LAMBDA x : x = c)
    IN  IF n > Len(s) THEN <<s>>
        ELSE <<SubSeq(s, 1, n - 1)>> \o split_on(From(s, n), c)

\* str.replace(c, '')
remove(s, c) == SelectSeq(s, LAMBDA x : x # c)

\* re.findall(r'\d+', s): <<>> when there is no digit, else <<first run>>
\* (only numbers[0] is used)
findall_digits(s) ==
    LET b == FirstIdx(s, IsDigit)
        rest == From(s, b - 1)
        e == FirstIdx(rest, LAMBDA x : ~IsDigit(x))
    IN  IF b > Len(s) THEN <<>> ELSE <<SubSeq(rest, 1, e - 1)>>

\* the try block of parse_duration
parse_duration_try(d) ==
    IF isna(d) \/ d = <<>> THEN Value(0)
    ELSE IF IsNum(d) THEN Raise        \* 'h' in <number> is a TypeError
    ELSE IF Contains(d, <<"h">>) /\ Contains(d, <<"m">>) /\ Contains(d, <<"s">>) THEN
        LET parts == split(d)
            hours == IF Len(parts) > 0 THEN int(remove(parts[1], "h")) ELSE Value(0)
            minutes == IF Len(parts) > 1 THEN int(remove(parts[2], "m")) ELSE Value(0)
            seconds == IF Len(parts) > 2 THEN int(remove(parts[3], "s")) ELSE Value(0)
        IN  IF hours.kind = "raise" \/ minutes.kind = "raise" \/ seconds.kind = "raise"
            THEN Raise
            ELSE Value(hours.val * 3600 + minutes.val * 60 + seconds.val)
    ELSE Value(0)

\* The variant without the except clause.
parse_duration_no_except(d) == parse_duration_try(d)

\* UnifiedProcessor.parse_duration (the same text is in both
\* CallLogProcessor classes): "except: return 0" around the try block.
parse_duration(d) ==
    LET r == parse_duration_try(d)
    IN  IF r.kind = "raise" THEN Value(0) ELSE r

\* the try block of _parse_duration_to_seconds
parse_duration_to_seconds_try(duration) ==
    IF duration = NaN THEN NanValue                 \* float('nan') is a float
    ELSE IF IsNum(duration) THEN Value(to_int(Tail(duration)))
    ELSE
    LET dstr == IF duration = None THEN <<"n", "o", "n", "e">>
                ELSE strip(lower(duration))
        parts == split_on(dstr, ":")
        f == [i \in 1..Len(parts) |-> float(parts[i])]
        numbers == findall_digits(dstr)
        text ==
            IF Contains(dstr, <<"h", "o", "u", "r">>)
               \/ Contains(dstr, <<"h", "r">>)
            THEN Value((IF numbers # <<>> THEN to_int(numbers[1]) ELSE 1) * 3600)
            ELSE IF Contains(dstr, <<"m", "i", "n">>)
            THEN Value((IF numbers # <<>> THEN to_int(numbers[1]) ELSE 5) * 60)
            ELSE IF Contains(dstr, <<"s", "e", "c">>)
            THEN Value(IF numbers # <<>> THEN to_int(numbers[1]) ELSE 30)
            ELSE IF numbers # <<>> THEN Value(to_int(numbers[1]) * 60)
            ELSE Fall
    IN  IF Contains(dstr, <<":">>) /\ Len(parts) = 3 THEN
            IF \E i \in 1..3 : f[i].kind = "raise" THEN Raise
            ELSE Value(f[1].val * 3600 + f[2].val * 60 + f[3].val)
        ELSE IF Contains(dstr, <<":">>) /\ Len(parts) = 2 THEN
            IF \E i \in 1..2 : f[i].kind = "raise" THEN Raise
            ELSE Value(f[1].val * 60 + f[2].val)
        ELSE text

\* MetricsCalculator._parse_duration_to_seconds: "except: pass", then the
\* final "return 0".
parse_duration_to_seconds(duration) ==
    LET r == parse_duration_to_seconds_try(duration)
    IN  IF r.kind \in {"raise", "fall"} THEN Value(0) ELSE r

----------------------------------------------------------------------------
(* Duration inputs.                                                        *)

MaxTokens == 3
MaxParts == 3

TokenNumbers == {<<>>, <<"0">>, <<"0", "1">>, <<"0", "2">>, <<"0", "3">>, <<"x">>}
TokenUnits == {<<>>, <<"h">>, <<"m">>, <<"s">>}
Tokens == {n \o u : n \in TokenNumbers, u \in TokenUnits} \ {<<>>}

ColonParts == {<<>>, <<"5">>, <<"3", "0">>, <<"0", "1">>, <<" ", "2">>, <<"x">>}

RECURSIVE join(_, _)
\* sep.join(parts)
join(parts, sep) ==
    IF parts = <<>> THEN <<>>
    ELSE IF Len(parts) = 1 THEN parts[1]
    ELSE parts[1] \o sep \o join(Tail(parts), sep)

TextDurations ==
    { <<"g", "a", "r", "b", "a", "g", "e">>,
      <<"5", " ", "m", "i", "n">>, <<"m", "i", "n">>, <<"5", " ", "M", "I", "N">>,
      <<"2", " ", "h", "o", "u", "r", "s">>, <<"h", "r">>,
      <<"3", "0", " ", "s", "e", "c">>, <<"s", "e", "c">>,
      <<"1", "2">>, <<" ">>,
      <<"1", ":", "2", " ", "m", "i", "n">>,
      <<"0", "1", "H", " ", "0", "2", "M", " ", "0", "3", "S">>,
      <<"0", "1", "h", "0", "2", "m", "0", "3", "s">>,
      <<"0", "1", "h", ":", "0", "2", "m", ":", "0", "3", "s">>,
      <<"5", ":", "3", "0", ":", "0", "1", ":", "0", "1">> }

DurationInputs ==
    {join(ts, <<" ">>) : ts \in SeqsUpTo(Tokens, MaxTokens)}
    \cup {join(ps, <<":">>) : ps \in SeqsUpTo(ColonParts, MaxParts)}
    \cup TextDurations
    \cup {NaN, None, Num(<<"9", "0">>), Num(<<"0">>)}

InitDuration ==
    /\ duration_str \in DurationInputs
    /\ duration_out = <<>>
    /\ IdlePhone /\ IdleUpdates /\ IdleMerge /\ IdleClassify /\ IdleRun

DurationOps == {duration_out[i].op : i \in 1..Len(duration_out)}

\* one call of parse_duration (Duration_Seconds of a call-log row)
ParseDuration ==
    /\ "parse_duration" \notin DurationOps
    /\ duration_out' = Append(duration_out,
           [op |-> "parse_duration", res |-> parse_duration(duration_str)])
    /\ UNCHANGED <<header, role, run, disk, phone_str, phone_trace, duration_str, update_row,
                   update_out, kind, files, op, merged>>

\* one call of _parse_duration_to_seconds (time metrics of a phone group)
ParseDurationToSeconds ==
    /\ "_parse_duration_to_seconds" \notin DurationOps
    /\ duration_out' = Append(duration_out,
           [op |-> "_parse_duration_to_seconds",
            res |-> parse_duration_to_seconds(duration_str)])
    /\ UNCHANGED <<header, role, run, disk, phone_str, phone_trace, duration_str, update_row,
                   update_out, kind, files, op, merged>>

NextDuration == ParseDuration \/ ParseDurationToSeconds

SpecDuration == InitDuration /\ [][NextDuration]_vars

----------------------------------------------------------------------------
(* Duration claims.                                                        *)

D_01h02m03s == <<"0", "1", "h", " ", "0", "2", "m", " ", "0", "3", "s">>
D_5_30 == <<"5", ":", "3", "0">>
D_garbage == <<"g", "a", "r", "b", "a", "g", "e">>

IsText(d) == ~isna(d) /\ ~IsNum(d)

\* a digit string followed by the one unit letter u
IsUnitToken(t, u) ==
    Len(t) >= 2 /\ t[Len(t)] = u /\ IsNumeral(SubSeq(t, 1, Len(t) - 1))

UnitNumber(t) == to_int(SubSeq(t, 1, Len(t) - 1))

\* "HHh MMm SSs": three whitespace-separated unit tokens
IsCompact(d) ==
    /\ IsText(d)
    /\ Len(split(d)) = 3
    /\ IsUnitToken(split(d)[1], "h")
    /\ IsUnitToken(split(d)[2], "m")
    /\ IsUnitToken(split(d)[3], "s")

CompactSeconds(d) ==
    UnitNumber(split(d)[1]) * 3600 + UnitNumber(split(d)[2]) * 60
        + UnitNumber(split(d)[3])

\* C5: in both duration parsers a compact token string "HHh MMm SSs" parses
\* to HH*3600 + MM*60 + SS, and "01h 02m 03s" to 3723.
C5_CompactForm ==
    \A i \in 1..Len(duration_out) :
        /\ IsCompact(duration_str) =>
               duration_out[i].res = Value(CompactSeconds(duration_str))
        /\ duration_str = D_01h02m03s => duration_out[i].res = Value(3723)

\* numeric colon-separated parts
IsColonForm(d, n) ==
    /\ IsText(d)
    /\ Len(split_on(d, ":")) = n
    /\ \A i \in 1..n : IsNumeral(split_on(d, ":")[i])

ColonSeconds(d) ==
    LET p == split_on(d, ":")
    IN  IF Len(p) = 3 THEN to_int(p[1]) * 3600 + to_int(p[2]) * 60 + to_int(p[3])
        ELSE to_int(p[1]) * 60 + to_int(p[2])

\* C6: in both duration parsers a string of 2 numeric colon-separated parts
\* parses to MM*60 + SS and one of 3 parts to HH*3600 + MM*60 + SS, and
\* "5:30" to 330.
C6_ColonForm ==
    \A i \in 1..Len(duration_out) :
        /\ (IsColonForm(duration_str, 2) \/ IsColonForm(duration_str, 3)) =>
               duration_out[i].res = Value(ColonSeconds(duration_str))
        /\ duration_str = D_5_30 => duration_out[i].res = Value(330)

\* a text with no colon, no digit and none of the unit words
Unrecognised(d) ==
    /\ IsText(d)
    /\ ~Contains(d, <<":">>)
    /\ findall_digits(d) = <<>>
    /\ \A w \in {<<"h", "o", "u", "r">>, <<"h", "r">>, <<"m", "i", "n">>,
                 <<"s", "e", "c">>} : ~Contains(lower(d), w)

\* C7: neither duration parser propagates an exception, whatever the input,
\* and an input of no recognised shape, such as "garbage", yields 0.
C7_NeverRaises ==
    \A i \in 1..Len(duration_out) :
        /\ duration_out[i].res.kind \in {"value", "nan"}
        /\ Unrecognised(duration_str) => duration_out[i].res = Value(0)
        /\ duration_str = D_garbage => duration_out[i].res = Value(0)

\* both parsers have run on an input on which both try blocks raise
C7_Witness ==
    /\ Len(duration_out) = 2
    /\ parse_duration_try(duration_str).kind = "raise"
    /\ parse_duration_to_seconds_try(duration_str).kind = "raise"
    /\ \A i \in 1..2 : duration_out[i].res = Value(0)

\* both parsers have run on "garbage"
C7_WitnessGarbage ==
    /\ duration_str = D_garbage
    /\ Len(duration_out) = 2
    /\ \A i \in 1..2 : duration_out[i].res = Value(0)

----------------------------------------------------------------------------
(* Update-column merging.                                                  *)

MaxUpdateCols == 2

\* the update columns of the table, in table-column order ("status",
\* "note", "call 3", "call 4", ...)
UpdateColumnName(i) ==
    IF i = 1 THEN <<"s", "t", "a", "t", "u", "s">>
    ELSE IF i = 2 THEN <<"n", "o", "t", "e">>
    ELSE <<"c", "a", "l", "l", " ", DigitChars[(i % 10) + 1]>>

NoUpdates == <<"N", "o", " ", "u", "p", "d", "a", "t", "e", "s">>

\* "<col>: <stripped value>" for the cells of cols that pass Keep
Fragments(row, Keep(_)) ==
    LET cols == SelectSeq([i \in 1..Len(row) |-> i], LAMBDA i : Keep(row[i]))
    IN  [k \in 1..Len(cols) |->
            UpdateColumnName(cols[k]) \o <<":", " ">> \o strip(row[cols[k]])]

\* DataCleaner.merge_updates_files, the update_texts loop of one row
combine_update_columns(row) ==
    LET update_texts ==
            Fragments(row, LAMBDA update_val :
                ~isna(update_val)
                /\ strip(update_val) \notin
                       {<<>>, <<"n", "a", "n">>, <<"N", "o", "n", "e">>})
    IN  IF update_texts # <<>> THEN join(update_texts, <<" ", "|", " ">>)
        ELSE NoUpdates

\* UnifiedProcessor.process_leads.merge_updates (the same text is
\* LeadsProcessor.merge_update_columns)
merge_updates(row) ==
    LET updates ==
            Fragments(row, LAMBDA value : ~isna(value) /\ strip(value) # <<>>)
    IN  IF updates # <<>> THEN join(updates, <<" ", "|", " ">>) ELSE <<>>

UpdateCells ==
    { NaN, <<>>, <<" ">>, <<"n", "a", "n">>, <<"N", "o", "n", "e">>,
      <<"o", "k">>, <<" ", "o", "k", " ">>, <<"n", "o">> }

\* a table that has update columns (process_leads calls merge_updates only
\* then)
InitUpdates ==
    /\ update_row \in SeqsUpTo(UpdateCells, MaxUpdateCols) \ {<<>>}
    /\ update_out = <<>>
    /\ IdlePhone /\ IdleDuration /\ IdleMerge /\ IdleClassify /\ IdleRun

UpdateOps == {update_out[i].op : i \in 1..Len(update_out)}

\* the row goes through DataCleaner.merge_updates_files
CombineUpdateColumns ==
    /\ "merge_updates_files" \notin UpdateOps
    /\ update_out' = Append(update_out,
           [op |-> "merge_updates_files", text |-> combine_update_columns(update_row)])
    /\ UNCHANGED <<header, role, run, disk, phone_str, phone_trace, duration_str, duration_out,
                   update_row, kind, files, op, merged>>

\* the row goes through UnifiedProcessor.process_leads
MergeUpdates ==
    /\ "merge_updates" \notin UpdateOps
    /\ update_out' = Append(update_out,
           [op |-> "merge_updates", text |-> merge_updates(update_row)])
    /\ UNCHANGED <<header, role, run, disk, phone_str, phone_trace, duration_str, duration_out,
                   update_row, kind, files, op, merged>>

NextUpdates == CombineUpdateColumns \/ MergeUpdates

SpecUpdates == InitUpdates /\ [][NextUpdates]_vars

----------------------------------------------------------------------------
(* Update-merging claim.                                                   *)

\* a cell that counts as empty: missing, or blank / "nan" / "None" once
\* trimmed
EmptyCell(c) ==
    isna(c) \/ strip(c) \in {<<>>, <<"n", "a", "n">>, <<"N", "o", "n", "e">>}

PopulatedCols(row) == {i \in 1..Len(row) : ~EmptyCell(row[i])}

\* the positions at which fragment text f occurs in t
Occurrences(t, f) ==
    {i \in 0..(Len(t) - Len(f)) : SubSeq(t, i + 1, i + Len(f)) = f}

FragmentOf(row, i) == UpdateColumnName(i) \o <<":", " ">> \o strip(row[i])

\* the number of " | " separators in t
Separators(t) == Cardinality(Occurrences(t, <<" ", "|", " ">>))

\* C8: the merged update text of a row holds one "<column>: <trimmed
\* value>" fragment per non-empty update cell and none for an empty one
\* (missing, "", "nan", "None"), in table-column order, joined by " | ";
\* with no populated cell it is "No updates".
C8_UpdateMerge ==
    \A k \in 1..Len(update_out) :
        LET t == update_out[k].text
            pop == PopulatedCols(update_row)
        IN  /\ pop = {} => t = NoUpdates
            /\ pop # {} =>
                /\ \A i \in pop : Cardinality(Occurrences(t, FragmentOf(update_row, i))) = 1
                /\ \A i \in 1..Len(update_row) : i \notin pop =>
                       Occurrences(t, UpdateColumnName(i) \o <<":">>) = {}
                /\ Separators(t) = Cardinality(pop) - 1
                /\ \A i, j \in pop : i < j =>
                       \A a \in Occurrences(t, FragmentOf(update_row, i)) :
                           \A b \in Occurrences(t, FragmentOf(update_row, j)) : a < b

----------------------------------------------------------------------------
(* Tables (pandas DataFrames): a sequence of rows, each row a record that  *)
(* carries its index label.                                                *)

MaxFiles == 2
MaxTotalRows == 3

Range(f) == {f[i] : i \in DOMAIN f}

\* the rows of df at the positions in keep, in their order
Filter(df, keep) ==
    LET idxs == SelectSeq([i \in 1..Len(df) |-> i], LAMBDA i : i \in keep)
    IN  [k \in 1..Len(idxs) |-> df[idxs[k]]]

\* The variant that flags every occurrence but the last (keep='last').
duplicated_keep_last(keys) ==
    {i \in 1..Len(keys) : \E j \in (i + 1)..Len(keys) : keys[j] = keys[i]}

\* DataFrame.duplicated(keep='first') on the key columns: the positions
\* whose key occurred at an earlier position (missing values compare equal)
duplicated(keys) ==
    {i \in 1..Len(keys) : \E j \in 1..(i - 1) : keys[j] = keys[i]}

\* DataFrame.drop_duplicates(subset=..., keep='first')
drop_duplicates(df, keys) ==
    Filter(df, (1..Len(df)) \ duplicated(keys))

RECURSIVE concat(_)
\* pd.concat(frames): the rows of the frames one after the other
concat(frames) ==
    IF frames = <<>> THEN <<>> ELSE frames[1] \o concat(Tail(frames))

\* ignore_index=True: fresh index labels 0..n-1
reindex(df) == [i \in 1..Len(df) |-> [df[i] EXCEPT !.index = i - 1]]

\* The variant in which the rows read before the failure are kept.
read_file_partial(f) == <<f.rows>>

\* pd.read_csv / pd.read_excel inside the per-file try block: the frames
\* the loop gets from file f, none when reading raises
read_file(f) == IF f.ok THEN <<f.rows>> ELSE <<>>

\* str(v) of a cell
str(v) ==
    IF v = NaN THEN <<"n", "a", "n">>
    ELSE IF v = None THEN <<"N", "o", "n", "e">>
    ELSE v

\* str.title(): a letter after a non-letter is upper-cased, others lowered
title(s) ==
    [i \in 1..Len(s) |->
        IF i = 1 \/ ~(IsUpper(s[i - 1]) \/ IsLower(s[i - 1]))
        THEN ToUpper(s[i]) ELSE ToLower(s[i])]

\* DataCleaner.clean_email
clean_email(email) ==
    IF isna(email) \/ email \in MissingLiterals THEN None
    ELSE LET email_str == lower(strip(email))
         IN  IF Contains(email_str, <<"@">>) /\ Contains(email_str, <<".">>)
                /\ Len(email_str) > 5
             THEN email_str ELSE None

----------------------------------------------------------------------------
(* DataCleaner merges.                                                     *)

\* the standardized frame of one leads file (columns name, email, phone,
\* city)
leads_frame(f, df) ==
    [i \in 1..Len(df) |->
        [index |-> i - 1, name |-> df[i].name, email |-> df[i].email,
         phone |-> df[i].phone, original_file |-> f.name,
         city |-> df[i].city]]

\* the per-file loop of merge_leads_files
all_leads(fs) ==
    concat([k \in 1..Len(fs) |->
        concat([j \in 1..Len(read_file(fs[k])) |->
            leads_frame(fs[k], read_file(fs[k])[j])])])

\* merged_leads after the cleaning of phone, email and name
cleaned_leads(fs) ==
    LET merged_leads == reindex(all_leads(fs))
    IN  [i \in 1..Len(merged_leads) |->
            [merged_leads[i] EXCEPT
                !.phone = clean_phone_number(@),
                !.email = clean_email(@),
                !.name = strip(title(str(@))),
                !.city = strip(title(str(@)))]]

\* DataCleaner.merge_leads_files
merge_leads_files(fs) ==
    LET merged_leads == cleaned_leads(fs)
    IN  [status |-> "ok",
         rows |-> drop_duplicates(merged_leads,
                      [i \in 1..Len(merged_leads) |->
                          <<merged_leads[i].phone, merged_leads[i].email>>])]

\* the standardized frame of one updates file
updates_frame(f, df) ==
    [i \in 1..Len(df) |->
        [index |-> i - 1, name |-> df[i].name, email |-> df[i].email,
         phone |-> df[i].phone,
         update_text |-> combine_update_columns(<<df[i].status>>),
         original_file |-> f.name, city |-> df[i].city]]

\* the per-file loop of merge_updates_files
all_updates(fs) ==
    concat([k \in 1..Len(fs) |->
        concat([j \in 1..Len(read_file(fs[k])) |->
            updates_frame(fs[k], read_file(fs[k])[j])])])

\* merged_updates after the cleaning of phone, email and name
cleaned_updates(fs) ==
    LET merged_updates == reindex(all_updates(fs))
    IN  [i \in 1..Len(merged_updates) |->
            [merged_updates[i] EXCEPT
                !.phone = clean_phone_number(@),
                !.email = clean_email(@),
                !.name = strip(title(str(@))),
                !.city = strip(title(str(@)))]]

\* DataCleaner.merge_updates_files
merge_updates_files(fs) ==
    LET merged_updates == cleaned_updates(fs)
    IN  [status |-> "ok",
         rows |-> drop_duplicates(merged_updates,
                      [i \in 1..Len(merged_updates) |->
                          <<merged_updates[i].name, merged_updates[i].phone,
                            merged_updates[i].update_text>>])]

\* the standardized frame of one call-log file: name, phone and the columns
\* whose header holds none of 'name', 'phone', 'mobile', 'number'
calls_frame(f, df) ==
    [i \in 1..Len(df) |->
        [index |-> i - 1, name |-> df[i].name, phone |-> df[i].number,
         original_file |-> f.name, date |-> df[i].date, time |-> df[i].time,
         duration |-> df[i].duration, phone_cleaned |-> None]]

\* the per-file loop of merge_call_logs
all_call_logs(fs) ==
    concat([k \in 1..Len(fs) |->
        concat([j \in 1..Len(read_file(fs[k])) |->
            calls_frame(fs[k], read_file(fs[k])[j])])])

\* DataCleaner.merge_call_logs: phone_cleaned is added and the rows without
\* one are removed; there is no duplicate removal
merge_call_logs(fs) ==
    LET merged_calls ==
            [i \in 1..Len(all_call_logs(fs)) |->
                [reindex(all_call_logs(fs))[i] EXCEPT
                    !.phone_cleaned =
                        clean_phone_number(all_call_logs(fs)[i].phone)]]
    IN  [status |-> "ok",
         rows |-> Filter(merged_calls,
                      {i \in 1..Len(merged_calls) :
                          ~isna(merged_calls[i].phone_cleaned)})]

----------------------------------------------------------------------------
(* UnifiedProcessor.                                                       *)

NaT == NaN

KnownDates ==
    {<<"2024-01-01 10:00">>, <<"2024-01-03 10:00">>, <<"2024-01-04 22:00">>}

\* a parsed timestamp in hours since 2024-01-01 00:00
Hours(d) ==
    CASE d = <<"2024-01-01 10:00">> -> 10
      [] d = <<"2024-01-03 10:00">> -> 58
      [] d = <<"2024-01-04 22:00">> -> 94

\* pd.to_datetime(errors='coerce') of a 'Date Time' cell
to_datetime(c) == IF c \in KnownDates THEN c ELSE NaT

\* all_dfs: the frames of the files that could be read
all_dfs(fs) == concat([k \in 1..Len(fs) |-> read_file(fs[k])])

Failed == [status |-> "failed", rows |-> <<>>, processed |-> {}]

\* the rows of call_logs_df after cleaning and exact-duplicate removal
call_logs_df(fs) ==
    LET raw == concat(all_dfs(fs))
        merged_df ==
            [i \in 1..Len(raw) |->
                [index |-> i - 1, Name |-> raw[i].name, To_Number |-> raw[i].number,
                 Date_Time |-> raw[i].date, Time |-> raw[i].time,
                 Duration |-> raw[i].duration, Duration_Seconds |-> 0]]
        with_number == Filter(merged_df,
            {i \in 1..Len(merged_df) : ~isna(merged_df[i].To_Number)})
        standardized ==
            [i \in 1..Len(with_number) |->
                [with_number[i] EXCEPT
                    !.Date_Time = to_datetime(@),
                    !.To_Number = standardize_phone_number(@)]]
        no_sci == Filter(standardized,
            {i \in 1..Len(standardized) : ~Contains(standardized[i].To_Number, <<"E">>)})
        long_enough == Filter(no_sci,
            {i \in 1..Len(no_sci) : Len(no_sci[i].To_Number) >= 9})
        with_seconds ==
            [i \in 1..Len(long_enough) |->
                [long_enough[i] EXCEPT
                    !.Duration_Seconds = parse_duration(long_enough[i].Duration).val]]
    IN  drop_duplicates(with_seconds,
            [i \in 1..Len(with_seconds) |-> [with_seconds[i] EXCEPT !.index = 0]])

RECURSIVE SumSeconds(_)
SumSeconds(df) ==
    IF df = <<>> THEN 0 ELSE df[1].Duration_Seconds + SumSeconds(Tail(df))

\* sorted(dates) of timestamps without NaT, as hours
sorted(dates) ==
    SortSeq([i \in 1..Len(dates) |-> Hours(dates[i])], LAMBDA a, b : a < b)

\* the differences of consecutive elements
diff(s) == [i \in 1..(Len(s) - 1) |-> s[i + 1] - s[i]]

RECURSIVE SumSeq(_)
SumSeq(s) == IF s = <<>> THEN 0 ELSE s[1] + SumSeq(Tail(s))

\* round(num / den, 2) in hundredths: the nearest whole number of
\* hundredths, an exact half going to the even one
round2(num, den) ==
    LET q == (100 * num) \div den
        r == (100 * num) % den
    IN  IF 2 * r > den \/ (2 * r = den /\ q % 2 = 1) THEN q + 1 ELSE q

\* The variant that divides by the number of calls, not of gaps.
calculate_time_gaps_per_call(dates) ==
    IF Len(dates) <= 1 THEN Value(0)
    ELSE IF \E i \in 1..Len(dates) : dates[i] = NaT THEN NanValue
    ELSE Value(round2(SumSeq(diff(sorted(dates))), Len(dates)))

\* UnifiedProcessor.calculate_time_gaps followed by the round(.., 2) of
\* process_call_logs: the mean gap in hundredths of an hour.  A NaT in the
\* list makes a neighbouring difference, and so the mean, NaN.
calculate_time_gaps(dates) ==
    IF Len(dates) <= 1 THEN Value(0)
    ELSE IF \E i \in 1..Len(dates) : dates[i] = NaT THEN NanValue
    ELSE Value(round2(SumSeq(diff(sorted(dates))), Len(dates) - 1))

RECURSIVE min(_)
\* Python's min(): the first element no later element is less than (every
\* comparison with NaT is False)
min(dates) ==
    IF Len(dates) = 1 THEN dates[1]
    ELSE LET m == min(SubSeq(dates, 1, Len(dates) - 1))
             x == dates[Len(dates)]
         IN  IF x # NaT /\ m # NaT /\ Hours(x) < Hours(m) THEN x ELSE m

RECURSIVE max(_)
\* Python's max()
max(dates) ==
    IF Len(dates) = 1 THEN dates[1]
    ELSE LET m == max(SubSeq(dates, 1, Len(dates) - 1))
             x == dates[Len(dates)]
         IN  IF x # NaT /\ m # NaT /\ Hours(x) > Hours(m) THEN x ELSE m

T_Unknown == <<"U", "n", "k", "n", "o", "w", "n">>

\* the non-missing cells of a name column
present_names(names) == SelectSeq(names, LAMBDA n : ~isna(n))

\* the number of cells of names equal to n
count_of(names, n) == Cardinality({i \in 1..Len(names) : names[i] = n})

\* the names no other name occurs more often than
top_names(names) ==
    LET present == present_names(names)
    IN  {present[i] : i \in {k \in 1..Len(present) :
            \A j \in 1..Len(present) :
                count_of(present, present[j]) <= count_of(present, present[k])}}

\* group['Name'].value_counts().index[0], or 'Unknown': value_counts counts
\* the non-missing cells and sorts by count, descending; names of the same
\* count stay in the order of their first occurrence
most_common_name(names) ==
    LET present == present_names(names)
    IN  IF present = <<>> THEN T_Unknown
        ELSE present[CHOOSE i \in 1..Len(present) :
                 /\ present[i] \in top_names(names)
                 /\ \A j \in 1..(i - 1) : present[j] \notin top_names(names)]

UnknownDate == 0 - 1

\* the entries of 'All Dates and Times': date.strftime('%Y-%m-%d') as the
\* day since 2024-01-01 (UnknownDate for 'Unknown Date') and the cell of
\* the Time column, one entry per row in the order of the group
date_time_called(group) ==
    [i \in 1..Len(group) |->
        [day |-> IF group[i].Date_Time # NaT
                 THEN Hours(group[i].Date_Time) \div 24 ELSE UnknownDate,
         time |-> str(group[i].Time)]]

\* The variant that reports the duration of the group's first call.
call_groups_first_duration(df) ==
    { LET group == SelectSeq(df, LAMBDA r : r.To_Number = phone_number)
          call_dates == [i \in 1..Len(group) |-> group[i].Date_Time]
      IN  [Phone_Number |-> phone_number,
           Total_Calls |-> Len(group),
           Name |-> most_common_name([i \in 1..Len(group) |-> group[i].Name]),
           Total_Duration |-> group[1].Duration_Seconds,
           First_Call_Date |-> min(call_dates),
           Last_Call_Date |-> max(call_dates),
           Avg_Gap |-> calculate_time_gaps(call_dates),
           All_Dates_Times |-> date_time_called(group)]
      : phone_number \in {df[i].To_Number : i \in 1..Len(df)} }

\* the groupby('To Number') records (their order is not modelled)
call_groups(df) ==
    { LET group == SelectSeq(df, LAMBDA r : r.To_Number = phone_number)
          call_dates == [i \in 1..Len(group) |-> group[i].Date_Time]
      IN  [Phone_Number |-> phone_number,
           Total_Calls |-> Len(group),
           Name |-> most_common_name([i \in 1..Len(group) |-> group[i].Name]),
           Total_Duration |-> SumSeconds(group),
           First_Call_Date |-> min(call_dates),
           Last_Call_Date |-> max(call_dates),
           Avg_Gap |-> calculate_time_gaps(call_dates),
           All_Dates_Times |-> date_time_called(group)]
      : phone_number \in {df[i].To_Number : i \in 1..Len(df)} }

\* UnifiedProcessor.process_call_logs
process_call_logs(fs) ==
    IF fs = <<>> THEN Failed
    ELSE IF all_dfs(fs) = <<>> THEN Failed
    ELSE [status |-> "ok", rows |-> call_logs_df(fs),
          processed |-> call_groups(call_logs_df(fs))]

\* the candidate value of a Name/Phone/Email/City cell (one column per role)
combined_value(cell) ==
    IF ~isna(cell) /\ strip(str(cell)) # <<>> THEN strip(str(cell)) ELSE <<>>

\* UnifiedProcessor.process_leads
process_leads(fs) ==
    IF fs = <<>> THEN Failed
    ELSE IF all_dfs(fs) = <<>> THEN Failed
    ELSE
    LET raw == concat(all_dfs(fs))
        leads_df ==
            [i \in 1..Len(raw) |->
                [index |-> i - 1,
                 Name |-> combined_value(raw[i].name),
                 Phone |-> standardize_phone_number(combined_value(raw[i].phone)),
                 Email |-> combined_value(raw[i].email),
                 City |-> combined_value(raw[i].city),
                 Updates |-> merge_updates(<<raw[i].status>>)]]
    IN  [status |-> "ok",
         rows |-> drop_duplicates(leads_df,
                      [i \in 1..Len(leads_df) |-> [leads_df[i] EXCEPT !.index = 0]]),
         processed |-> {}]

----------------------------------------------------------------------------
(* Source files.                                                           *)

Kinds == {"leads", "updates", "calls"}

T_ann == <<"a", "n", "n">>
T_bob == <<"b", "o", "b">>
T_ok == <<"o", "k">>

T_galle == <<"g", "a", "l", "l", "e">>

\* rows of lead and update files (columns name, phone, email, city, status);
\* the fourth row is blank in every column, the fifth has a name and a city
\* but no usable phone or email
ContactRows ==
    << [name |-> T_ann, phone |-> P0771234567,
        email |-> <<"a", "@", "x", ".", "l", "k">>, city |-> T_galle,
        status |-> T_ok],
       [name |-> T_bob, phone |-> P94771234567,
        email |-> <<"A", "@", "X", ".", "L", "K">>, city |-> NaN,
        status |-> NaN],
       [name |-> <<"A", "N", "N">>, phone |-> <<"+">> \o P94771234567,
        email |-> NaN, city |-> T_galle, status |-> <<" ", "o", "k">>],
       [name |-> NaN, phone |-> NaN, email |-> NaN, city |-> NaN,
        status |-> NaN],
       [name |-> T_bob, phone |-> <<"1", "2", "3", "4", "5">>, email |-> NaN,
        city |-> T_galle, status |-> T_ok] >>

\* rows of call-log files (columns Name, To Number, Date Time, Time,
\* Duration)
CallRows ==
    << [name |-> T_ann, number |-> P0771234567, date |-> <<"2024-01-01 10:00">>,
        time |-> <<"1", "0", ":", "0", "0">>,
        duration |-> <<"0", "0", "h", " ", "0", "0", "m", " ", "3", "0", "s">>],
       [name |-> T_ann, number |-> P94771234567, date |-> <<"2024-01-03 10:00">>,
        time |-> <<"1", "0", ":", "0", "0">>,
        duration |-> <<"0", "0", "h", " ", "0", "1", "m", " ", "3", "0", "s">>],
       [name |-> NaN, number |-> <<"1", "2", "3", "4", "5">>, date |-> <<"someday">>,
        time |-> <<"0", "9", ":", "0", "0">>, duration |-> D_5_30] >>

\* the rows lead files are made of: the third row's key is not needed there
LeadRows == <<ContactRows[1], ContactRows[2], ContactRows[4], ContactRows[5]>>

\* the rows update files are made of
UpdateRows == SubSeq(ContactRows, 1, 4)

RowsOf(k) ==
    IF k = "calls" THEN CallRows
    ELSE IF k = "leads" THEN LeadRows
    ELSE UpdateRows

FileNames == <<"a.csv", "b.csv", "c.csv", "d.csv">>

\* the ways of cutting L rows into n consecutive files: the position of
\* each file's last row
Cuts(n, L) ==
    {c \in [1..n -> 0..L] :
        /\ (IF n = 0 THEN L = 0 ELSE c[n] = L)
        /\ \A i \in 1..(n - 1) : c[i] <= c[i + 1]}

\* the file list that holds the rows rs cut at c; file i can be read iff
\* oks[i], and otherwise its reading raises (after the rows shown)
FileList(rs, c, oks) ==
    [i \in 1..Len(c) |->
        [name |-> FileNames[i], ok |-> oks[i],
         rows |-> SubSeq(rs, (IF i = 1 THEN 0 ELSE c[i - 1]) + 1, c[i])]]

\* up to MaxFiles files of kind k that hold up to MaxTotalRows rows together
FileLists(k) ==
    UNION { UNION { UNION { {FileList(rs, c, oks) : oks \in [1..n -> BOOLEAN]}
                            : c \in Cuts(n, Len(rs)) }
                    : n \in 0..MaxFiles }
            : rs \in SeqsUpTo(Range(RowsOf(k)), MaxTotalRows) }

InitMerge ==
    /\ kind \in Kinds
    /\ files \in FileLists(kind)
    /\ op = "none"
    /\ merged = <<>>
    /\ IdlePhone /\ IdleDuration /\ IdleUpdates /\ IdleClassify /\ IdleRun

MergeLeadsFiles ==
    /\ kind = "leads" /\ op = "none"
    /\ op' = "merge_leads_files"
    /\ merged' = merge_leads_files(files)
    /\ UNCHANGED <<header, role, run, disk, phone_str, phone_trace, duration_str, duration_out,
                   update_row, update_out, kind, files>>

MergeUpdatesFiles ==
    /\ kind = "updates" /\ op = "none"
    /\ op' = "merge_updates_files"
    /\ merged' = merge_updates_files(files)
    /\ UNCHANGED <<header, role, run, disk, phone_str, phone_trace, duration_str, duration_out,
                   update_row, update_out, kind, files>>

MergeCallLogs ==
    /\ kind = "calls" /\ op = "none"
    /\ op' = "merge_call_logs"
    /\ merged' = merge_call_logs(files)
    /\ UNCHANGED <<header, role, run, disk, phone_str, phone_trace, duration_str, duration_out,
                   update_row, update_out, kind, files>>

ProcessCallLogs ==
    /\ kind = "calls" /\ op = "none"
    /\ op' = "process_call_logs"
    /\ merged' = process_call_logs(files)
    /\ UNCHANGED <<header, role, run, disk, phone_str, phone_trace, duration_str, duration_out,
                   update_row, update_out, kind, files>>

ProcessLeads ==
    /\ kind = "leads" /\ op = "none"
    /\ op' = "process_leads"
    /\ merged' = process_leads(files)
    /\ UNCHANGED <<header, role, run, disk, phone_str, phone_trace, duration_str, duration_out,
                   update_row, update_out, kind, files>>

NextMerge ==
    \/ MergeLeadsFiles
    \/ MergeUpdatesFiles
    \/ MergeCallLogs
    \/ ProcessCallLogs
    \/ ProcessLeads

SpecMerge == InitMerge /\ [][NextMerge]_vars

----------------------------------------------------------------------------
(* Merge claims.                                                           *)

\* what operation o returns on the file list fs
RunOp(o, fs) ==
    CASE o = "merge_leads_files" -> merge_leads_files(fs)
      [] o = "merge_updates_files" -> merge_updates_files(fs)
      [] o = "merge_call_logs" -> merge_call_logs(fs)
      [] o = "process_call_logs" -> process_call_logs(fs)
      [] o = "process_leads" -> process_leads(fs)

\* the files that can be read, in their order
Loadable(fs) == SelectSeq(fs, LAMBDA f : f.ok)

DataCleanerOps == {"merge_leads_files", "merge_updates_files", "merge_call_logs"}

\* a result row without its position and provenance
Content(o, x) ==
    IF o \in DataCleanerOps THEN [x EXCEPT !.index = 0, !.original_file = ""]
    ELSE [x EXCEPT !.index = 0]

\* the result rows of operation o on a file that holds only raw row r
Alone(o, r) == RunOp(o, <<[name |-> "x.csv", ok |-> TRUE, rows |-> <<r>>]>>).rows

\* the files in which a row with the result content c occurs
Holders(o, c) ==
    {k \in 1..Len(files) :
        /\ files[k].ok
        /\ \E q \in Range(files[k].rows) :
               Alone(o, q) # <<>> /\ Content(o, Alone(o, q)[1]) = c}

\* C9: a row that occurs in two different source files of one kind occurs
\* at most once in the merged table (exactly once in a call-log table,
\* which has no key-based pass), and the surviving copy carries the
\* original_file of the first file, in concatenation order, that holds it.
C9_ExactDuplicates ==
    op # "none" =>
        \A a, b \in 1..Len(files) : \A r \in Range(RowsOf(kind)) :
            ( /\ a < b /\ files[a].ok /\ files[b].ok
              /\ r \in Range(files[a].rows) /\ r \in Range(files[b].rows)
              /\ Alone(op, r) # <<>> ) =>
                LET c == Content(op, Alone(op, r)[1])
                    copies == {i \in 1..Len(merged.rows) :
                                  Content(op, merged.rows[i]) = c}
                    first == CHOOSE k \in Holders(op, c) :
                                 \A h \in Holders(op, c) : k <= h
                IN  /\ Cardinality(copies) <= 1
                    /\ kind = "calls" => Cardinality(copies) = 1
                    /\ op \in DataCleanerOps =>
                           \A i \in copies :
                               merged.rows[i].original_file = files[first].name

\* the dedup key of a cleaned lead or update record
KeyOf(o, r) ==
    IF o = "merge_leads_files" THEN <<r.phone, r.email>>
    ELSE <<r.name, r.phone, r.update_text>>

\* the cleaned records in file-concatenation order, before deduplication
Concatenated(o, fs) ==
    IF o = "merge_leads_files" THEN cleaned_leads(fs) ELSE cleaned_updates(fs)

\* C10: after merge_leads_files (key phone, email) and merge_updates_files
\* (key name, phone, update_text) no two survivors share a key, every
\* survivor is the earliest record of the concatenation with its key, every
\* key keeps a survivor, and survivors are in concatenation order.
C10_KeepFirst ==
    op \in {"merge_leads_files", "merge_updates_files"} =>
        LET pre == Concatenated(op, files)
            R == merged.rows
        IN  /\ \A i, j \in 1..Len(R) : i < j =>
                   /\ KeyOf(op, R[i]) # KeyOf(op, R[j])
                   /\ R[i].index < R[j].index
            /\ \A i \in 1..Len(R) :
                   /\ R[i].index + 1 \in 1..Len(pre)
                   /\ R[i] = pre[R[i].index + 1]
                   /\ \A j \in 1..R[i].index : KeyOf(op, pre[j]) # KeyOf(op, R[i])
            /\ \A j \in 1..Len(pre) :
                   \E i \in 1..Len(R) : KeyOf(op, R[i]) = KeyOf(op, pre[j])

\* a later record of another file, with another name, lost to the first
\* record with its key
C10_Witness ==
    /\ op = "merge_leads_files"
    /\ LET pre == Concatenated(op, files)
       IN  \E i \in 1..Len(merged.rows) : \E j \in 1..Len(pre) :
               /\ j > merged.rows[i].index + 1
               /\ KeyOf(op, pre[j]) = KeyOf(op, merged.rows[i])
               /\ pre[j].name # merged.rows[i].name
               /\ pre[j].original_file # merged.rows[i].original_file
               /\ \A k \in 1..Len(merged.rows) : merged.rows[k].index + 1 # j

----------------------------------------------------------------------------
(* Lead pruning claim.                                                     *)

\* a source cell without content
Blank(v) == isna(v) \/ strip(str(v)) = <<>>

\* a source row whose name, email, phone and city are all blank
BlankContact(r) ==
    Blank(r.name) /\ Blank(r.email) /\ Blank(r.phone) /\ Blank(r.city)

\* the source rows of the readable files, in concatenation order
SourceRows(fs) == concat([k \in 1..Len(fs) |-> concat(read_file(fs[k]))])

\* C11: no record of the leads table returned by merge_leads_files comes
\* from a source row whose name, email, phone and city are all blank: such
\* a row is dropped, so only the rows with a populated contact field count.
C11_LeadPruning ==
    op = "merge_leads_files" =>
        \A i \in 1..Len(merged.rows) :
            ~BlankContact(SourceRows(files)[merged.rows[i].index + 1])

----------------------------------------------------------------------------
(* MetricsCalculator: the call analysis table of app.py, one record per    *)
(* phone_cleaned of DataCleaner's call-log table.                          *)

\* df[col].head(5).dropna() of the 'duration' column
duration_sample(df) ==
    SelectSeq(SubSeq(df, 1, IF Len(df) < 5 THEN Len(df) ELSE 5),
              LAMBDA r : ~isna(r.duration))

\* MetricsCalculator._find_duration_column: 'duration' is the one column
\* whose header holds 'duration', 'call time' or 'length'
find_duration_column(df) ==
    IF Len(duration_sample(df)) > 0 THEN <<"duration">> ELSE None

\* The variant that counts every parsed duration, also the zero ones.
calculate_time_metrics_count_all(phone_calls) ==
    LET dropna == SelectSeq(phone_calls, LAMBDA r : ~isna(r.duration))
        seconds == [i \in 1..Len(dropna) |->
                       parse_duration_to_seconds(dropna[i].duration).val]
    IN  IF find_duration_column(phone_calls) # None /\ Len(seconds) > 0
        THEN [total_time_spent_seconds |-> SumSeq(seconds),
              avg_time_per_call_seconds |-> round2(SumSeq(seconds), Len(seconds))]
        ELSE [total_time_spent_seconds |-> 0, avg_time_per_call_seconds |-> 0]

\* MetricsCalculator._calculate_time_metrics (seconds; the average in
\* hundredths of a second)
calculate_time_metrics(phone_calls) ==
    LET dropna == SelectSeq(phone_calls, LAMBDA r : ~isna(r.duration))
        seconds == [i \in 1..Len(dropna) |->
                       parse_duration_to_seconds(dropna[i].duration).val]
        valid == SelectSeq(seconds, LAMBDA x : x > 0)
        total_seconds == SumSeq(valid)
        valid_durations == Len(valid)
    IN  IF find_duration_column(phone_calls) # None /\ valid_durations > 0
        THEN [total_time_spent_seconds |-> total_seconds,
              avg_time_per_call_seconds |-> round2(total_seconds, valid_durations)]
        ELSE [total_time_spent_seconds |-> 0, avg_time_per_call_seconds |-> 0]

\* the day of the run, in days since 2024-01-01: a time of day without a
\* date is parsed as that time on the day of the run
RunDay == 400

\* whether a 'time' cell ("HH:MM") parses as a time of day
IsTimeOfDay(c) ==
    /\ ~isna(c) /\ Len(c) = 5 /\ c[3] = ":"
    /\ \A i \in {1, 2, 4, 5} : IsDigit(c[i])

\* pd.to_datetime of a cell of column col, in hours since 2024-01-01 00:00
\* (NaT when it does not parse)
column_datetime(col, r) ==
    IF col = "date time"
    THEN (IF r.date \in KnownDates THEN Value(Hours(r.date)) ELSE NanValue)
    ELSE (IF IsTimeOfDay(r.time)
          THEN Value(RunDay * 24 + to_int(SubSeq(r.time, 1, 2))) ELSE NanValue)

\* the raw cell of column col
column_cell(col, r) == IF col = "date time" THEN r.date ELSE r.time

\* whether column col passes the test of _find_date_column: a non-empty
\* head(5).dropna() sample that pd.to_datetime(errors='raise') accepts
date_column_ok(df, col) ==
    LET sample == SelectSeq(SubSeq(df, 1, IF Len(df) < 5 THEN Len(df) ELSE 5),
                            LAMBDA r : ~isna(column_cell(col, r)))
    IN  /\ Len(sample) > 0
        /\ \A i \in 1..Len(sample) : column_datetime(col, sample[i]).kind = "value"

\* MetricsCalculator._find_date_column: the columns whose header holds
\* 'date', 'time' or 'timestamp' are 'date time' and 'time', in this order
find_date_column(df) ==
    IF date_column_ok(df, "date time") THEN "date time"
    ELSE IF date_column_ok(df, "time") THEN "time"
    ELSE "None"

Unknown == [kind |-> "unknown", val |-> 0]

\* _get_default_date_metrics
get_default_date_metrics ==
    [avg_gap_between_calls |-> 0, min_gap_between_calls |-> 0,
     max_gap_between_calls |-> 0, first_call_date |-> Unknown,
     last_call_date |-> Unknown, total_call_days |-> 0]

\* the least and greatest element of a non-empty sequence of numbers
Least(s) == CHOOSE x \in Range(s) : \A y \in Range(s) : x <= y
Greatest(s) == CHOOSE x \in Range(s) : \A y \in Range(s) : x >= y

\* MetricsCalculator._calculate_date_metrics (gaps in hundredths of a day,
\* dates in hours since 2024-01-01 00:00)
calculate_date_metrics(phone_calls) ==
    LET date_col == find_date_column(phone_calls)
        parsed == [i \in 1..Len(phone_calls) |->
                      column_datetime(date_col, phone_calls[i])]
        kept == SelectSeq(parsed, LAMBDA v : v.kind = "value")
        dates == [i \in 1..Len(kept) |-> kept[i].val]
        dates_sorted == SortSeq(dates, LAMBDA a, b : a < b)
        gaps == diff(dates_sorted)
    IN  IF date_col = "None" THEN get_default_date_metrics
        ELSE IF Len(dates) >= 2 THEN
            [avg_gap_between_calls |-> round2(SumSeq(gaps), 24 * Len(gaps)),
             min_gap_between_calls |-> round2(Least(gaps), 24),
             max_gap_between_calls |-> round2(Greatest(gaps), 24),
             first_call_date |-> Value(Least(dates_sorted)),
             last_call_date |-> Value(Greatest(dates_sorted)),
             total_call_days |->
                 Cardinality({dates[i] \div 24 : i \in 1..Len(dates)})]
        ELSE IF Len(dates) = 1 THEN
            [avg_gap_between_calls |-> 0, min_gap_between_calls |-> 0,
             max_gap_between_calls |-> 0, first_call_date |-> Value(dates[1]),
             last_call_date |-> Value(dates[1]), total_call_days |-> 1]
        ELSE get_default_date_metrics

\* the code points of the characters of names, ascending
CodePoints == <<" ">> \o DigitChars \o UpperChars \o LowerChars
ord(c) == CHOOSE i \in 1..Len(CodePoints) : CodePoints[i] = c

RECURSIVE str_lt(_, _)
\* a < b of two strings
str_lt(a, b) ==
    IF b = <<>> THEN FALSE
    ELSE IF a = <<>> THEN TRUE
    ELSE IF a[1] = b[1] THEN str_lt(Tail(a), Tail(b))
    ELSE ord(a[1]) < ord(b[1])

\* MetricsCalculator._get_most_common_name: names.mode()[0] of the
\* non-missing names; Series.mode returns the modes sorted ascending
get_most_common_name(names) ==
    IF present_names(names) = <<>> THEN T_Unknown
    ELSE CHOOSE n \in top_names(names) :
             \A other \in top_names(names) \ {n} : str_lt(n, other)

\* two decimal digits
two_digits(n) == <<DigitChars[(n \div 10) + 1], DigitChars[(n % 10) + 1]>>

\* the text returned in place of a list
NoDateTimeData == <<"No date/time data">>

\* MetricsCalculator._get_all_dates_times: the parsed, non-null cells of
\* the date column as '%Y-%m-%d %H:%M:%S' (the day since 2024-01-01 and the
\* time of the timestamp), sorted as text, or "No date/time data"
get_all_dates_times(phone_calls) ==
    LET date_col == find_date_column(phone_calls)
        parsed == [i \in 1..Len(phone_calls) |->
                      column_datetime(date_col, phone_calls[i])]
        kept == SelectSeq(parsed, LAMBDA v : v.kind = "value")
        dates == SortSeq([i \in 1..Len(kept) |-> kept[i].val], LAMBDA a, b : a < b)
    IN  IF date_col = "None" \/ dates = <<>> THEN NoDateTimeData
        ELSE [i \in 1..Len(dates) |->
                 [day |-> dates[i] \div 24,
                  time |-> two_digits(dates[i] % 24)
                               \o <<":", "0", "0", ":", "0", "0">>]]

\* MetricsCalculator._calculate_phone_metrics
calculate_phone_metrics(phone_calls, phone) ==
    [phone |-> phone,
     no_of_times_called |-> Len(phone_calls),
     name |-> get_most_common_name([i \in 1..Len(phone_calls) |-> phone_calls[i].name]),
     date |-> calculate_date_metrics(phone_calls),
     time |-> calculate_time_metrics(phone_calls),
     dates_times_called |-> get_all_dates_times(phone_calls)]

\* MetricsCalculator.generate_call_analysis_table
generate_call_analysis_table(df) ==
    IF df = <<>> THEN {}
    ELSE { calculate_phone_metrics(
               SelectSeq(df, LAMBDA r : r.phone_cleaned = phone), phone)
           : phone \in {df[i].phone_cleaned : i \in 1..Len(df)} }

----------------------------------------------------------------------------
(* CallLogProcessor of app2.py: the loader of a single call-log file.      *)

\* CallLogProcessor.load_file: the rows of self.df (the file is read
\* inside the try block, whose except returns False)
load_file_df(f) ==
    LET raw == concat(read_file(f))
        df == [i \in 1..Len(raw) |->
                  [index |-> i - 1, Name |-> raw[i].name, To_Number |-> raw[i].number,
                   Date_Time |-> raw[i].date, Time |-> raw[i].time,
                   Duration |-> raw[i].duration, Duration_Seconds |-> 0]]
        with_number == Filter(df, {i \in 1..Len(df) : ~isna(df[i].To_Number)})
        digits ==
            [i \in 1..Len(with_number) |->
                [with_number[i] EXCEPT
                    !.Date_Time = to_datetime(@),
                    !.To_Number = rstrip0(OnlyDigits(str(@)))]]
        no_sci == Filter(digits,
            {i \in 1..Len(digits) : ~Contains(digits[i].To_Number, <<"E">>)})
        long_enough == Filter(no_sci,
            {i \in 1..Len(no_sci) : Len(no_sci[i].To_Number) >= 7})
    IN  [i \in 1..Len(long_enough) |->
            [long_enough[i] EXCEPT
                !.Duration_Seconds = parse_duration(long_enough[i].Duration).val]]

\* CallLogProcessor.load_file followed by process_data
load_file(f) ==
    IF read_file(f) = <<>> THEN Failed
    ELSE [status |-> "ok", rows |-> load_file_df(f),
          processed |-> call_groups(load_file_df(f))]

----------------------------------------------------------------------------
(* Call analysis: one call-log export, aggregated by UnifiedProcessor and  *)
(* by DataCleaner followed by MetricsCalculator.                           *)

MaxCalls == 3

T_10_00 == <<"1", "0", ":", "0", "0">>
T_09_00 == <<"0", "9", ":", "0", "0">>
T_22_00 == <<"2", "2", ":", "0", "0">>
D_30s == <<"0", "0", "h", " ", "0", "0", "m", " ", "3", "0", "s">>
D_90s == <<"0", "0", "h", " ", "0", "1", "m", " ", "3", "0", "s">>

\* rows of a call-log export (columns Name, To Number, Date Time, Time,
\* Duration): CallRows and rows with further numbers, dates and durations
AnalysisRows ==
    CallRows \o
    << [name |-> T_bob, number |-> <<"+">> \o P94771234567,
        date |-> <<"2024-01-04 22:00">>, time |-> T_22_00,
        duration |-> <<"1", ":", "3", "0">>],
       [name |-> T_bob, number |-> P0771234567, date |-> <<"someday">>,
        time |-> T_09_00, duration |-> <<"0", ":", "3", "0">>],
       [name |-> T_bob, number |-> <<"7", "7", "1", "2", "3", "4", "5", "6", "8">>,
        date |-> <<"2024-01-01 10:00">>, time |-> T_10_00, duration |-> D_30s],
       [name |-> NaN, number |-> <<"0", "0", "0", "0", "0", "0", "0", "0", "0">>,
        date |-> <<"2024-01-03 10:00">>, time |-> T_09_00, duration |-> NaN],
       [name |-> NaN,
        number |-> <<"9", "4", " ", "1", "2", " ", "3", "4", " ", "5", "6">>,
        date |-> <<"2024-01-01 10:00">>, time |-> T_10_00, duration |-> D_90s] >>

\* an export in which a number's first five rows have no duration and its
\* sixth has one
LongCallRows ==
    [i \in 1..5 |-> [CallRows[1] EXCEPT !.duration = NaN]]
        \o <<[CallRows[1] EXCEPT !.duration = <<"0", ":", "3", "0">>]>>

InitCalls ==
    /\ kind = "calls"
    /\ files \in {<<[name |-> FileNames[1], ok |-> TRUE, rows |-> rs]>> :
                      rs \in SeqsUpTo(Range(AnalysisRows), MaxCalls)
                             \cup {LongCallRows}}
    /\ op = "none"
    /\ merged = <<>>
    /\ IdlePhone /\ IdleDuration /\ IdleUpdates /\ IdleClassify /\ IdleRun

\* LeadAnalysisApp.process_data up to the call analysis table: the call-log
\* table of DataCleaner and the table MetricsCalculator makes of it
GenerateCallAnalysisTable ==
    /\ kind = "calls" /\ op = "none"
    /\ op' = "generate_call_analysis_table"
    /\ merged' = [status |-> "ok",
                  rows |-> merge_call_logs(files).rows,
                  processed |->
                      generate_call_analysis_table(merge_call_logs(files).rows)]
    /\ UNCHANGED <<header, role, run, disk, phone_str, phone_trace, duration_str, duration_out,
                   update_row, update_out, kind, files>>

\* CallLogProcessor.load_file and process_data of app2.py on the export
LoadFile ==
    /\ kind = "calls" /\ op = "none"
    /\ Len(files) = 1
    /\ op' = "load_file"
    /\ merged' = load_file(files[1])
    /\ UNCHANGED <<header, role, run, disk, phone_str, phone_trace, duration_str, duration_out,
                   update_row, update_out, kind, files>>

NextCalls ==
    \/ ProcessCallLogs
    \/ GenerateCallAnalysisTable
    \/ LoadFile

SpecCalls == InitCalls /\ [][NextCalls]_vars

----------------------------------------------------------------------------
(* Call analysis claims.                                                   *)

RECURSIVE SumOver(_, _)
\* the sum of f[i] over the indices i in S
SumOver(f, S) ==
    IF S = {} THEN 0
    ELSE LET i == CHOOSE x \in S : TRUE IN f[i] + SumOver(f, S \ {i})

\* the phone key of a surviving call record and of an analysis record
RowPhone(r) ==
    IF op = "process_call_logs" THEN r.To_Number ELSE r.phone_cleaned
GroupPhone(g) ==
    IF op = "process_call_logs" THEN g.Phone_Number ELSE g.phone
GroupCalls(g) ==
    IF op = "process_call_logs" THEN g.Total_Calls ELSE g.no_of_times_called
GroupSeconds(g) ==
    IF op = "process_call_logs" THEN g.Total_Duration
    ELSE g.time.total_time_spent_seconds

\* the parsed duration of a surviving call record, by the parser of the
\* pipeline that made it (a missing duration counts 0)
RowSeconds(r) ==
    IF op = "process_call_logs" THEN parse_duration(r.Duration).val
    ELSE IF isna(r.duration) THEN 0
    ELSE parse_duration_to_seconds(r.duration).val

\* the surviving call records with phone p
RowsOfPhone(p) == {i \in 1..Len(merged.rows) : RowPhone(merged.rows[i]) = p}

\* C12: the analysis has exactly one record per distinct phone of the
\* surviving call records; its call count is the number of surviving
\* records with that phone (the counts sum to the number of survivors) and
\* its total duration is the sum of their parsed durations.
C12_CallAggregation ==
    (op \in {"process_call_logs", "generate_call_analysis_table"}
     /\ merged.status = "ok") =>
        LET R == merged.rows
            G == merged.processed
            seconds == [i \in 1..Len(R) |-> RowSeconds(R[i])]
            calls == [p \in {GroupPhone(g) : g \in G} |->
                         GroupCalls(CHOOSE g \in G : GroupPhone(g) = p)]
        IN  /\ {GroupPhone(g) : g \in G} = {RowPhone(R[i]) : i \in 1..Len(R)}
            /\ \A g, h \in G : GroupPhone(g) = GroupPhone(h) => g = h
            /\ \A g \in G :
                   /\ GroupCalls(g) = Cardinality(RowsOfPhone(GroupPhone(g)))
                   /\ GroupSeconds(g) = SumOver(seconds, RowsOfPhone(GroupPhone(g)))
            /\ SumOver(calls, DOMAIN calls) = Len(R)

\* two calls of 30 s and 90 s to 94771234567, written in two forms
C12_Witness ==
    /\ op = "process_call_logs"
    /\ merged.status = "ok"
    /\ \E g \in merged.processed :
           /\ g.Phone_Number = P94771234567
           /\ g.Total_Calls = 2
           /\ g.Total_Duration = 120
    /\ \E i, j \in 1..Len(files[1].rows) :
           /\ files[1].rows[i].number = P0771234567
           /\ files[1].rows[j].number = P94771234567

\* a phone of two calls in the table of MetricsCalculator, with a positive
\* total
C12_WitnessMetrics ==
    /\ op = "generate_call_analysis_table"
    /\ \E g \in merged.processed :
           /\ g.no_of_times_called = 2
           /\ g.time.total_time_spent_seconds = 120

\* the 'Date Time' cell of a surviving call record
RowDate(r) == IF op = "process_call_logs" THEN r.Date_Time ELSE r.date

\* the non-null timestamps of the surviving call records with phone p, in
\* hours, sorted ascending
GroupTimestamps(p) ==
    LET R == merged.rows
        mine == SelectSeq([i \in 1..Len(R) |-> i],
                          LAMBDA i : RowPhone(R[i]) = p /\ RowDate(R[i]) \in KnownDates)
    IN  SortSeq([k \in 1..Len(mine) |-> Hours(RowDate(R[mine[k]]))],
                LAMBDA a, b : a < b)

\* the gaps of phone p in hours: the differences of consecutive timestamps
GroupGaps(p) == diff(GroupTimestamps(p))

\* a number of hours as days, to the two decimals the tables carry (in
\* hundredths of a day)
Days(num, den) == round2(num, 24 * den)

\* C13: the average, minimum and maximum gap of a phone group are the mean,
\* the least and the greatest difference, in days, between consecutive
\* non-null timestamps of the group sorted ascending, and all are zero when
\* the group has fewer than two non-null timestamps (UnifiedProcessor
\* reports the average only).
C13_GapMetrics ==
    (op \in {"process_call_logs", "generate_call_analysis_table"}
     /\ merged.status = "ok") =>
        \A g \in merged.processed :
            LET gaps == GroupGaps(GroupPhone(g))
                avg == IF gaps = <<>> THEN 0 ELSE Days(SumSeq(gaps), Len(gaps))
                lo == IF gaps = <<>> THEN 0 ELSE Days(Least(gaps), 1)
                hi == IF gaps = <<>> THEN 0 ELSE Days(Greatest(gaps), 1)
            IN  IF op = "process_call_logs"
                THEN g.Avg_Gap = Value(avg)
                ELSE /\ g.date.avg_gap_between_calls = avg
                     /\ g.date.min_gap_between_calls = lo
                     /\ g.date.max_gap_between_calls = hi

\* the canonical form the pipeline of operation o gives a raw number
Canonical(o, number) ==
    CASE o = "process_call_logs" -> standardize_phone_number(number)
      [] o = "load_file" -> rstrip0(OnlyDigits(str(number)))
      [] o = "generate_call_analysis_table" -> clean_phone_number(number)

\* the number of digits of a canonical form
NumDigits(v) == IF isna(v) THEN 0 ELSE Len(OnlyDigits(v))

\* the minimum accepted length: 9 in the folder pipelines, 7 in the loader
\* of a single file
MinDigits(o) == IF o = "load_file" THEN 7 ELSE 9

\* the phone keys of the surviving call records and of the analysis
SurvivingKeys ==
    {(IF op = "generate_call_analysis_table" THEN merged.rows[i].phone_cleaned
      ELSE merged.rows[i].To_Number) : i \in 1..Len(merged.rows)}
AnalysisKeys ==
    {(IF op = "generate_call_analysis_table" THEN g.phone ELSE g.Phone_Number)
     : g \in merged.processed}

\* C14: a call-log row whose destination number canonicalizes to fewer
\* digits than the minimum accepted length is in no aggregate: its number
\* is the key of no surviving call record and of no analysis record.
C14_ShortNumbersExcluded ==
    (op \in {"process_call_logs", "load_file", "generate_call_analysis_table"}
     /\ merged.status = "ok") =>
        \A k \in 1..Len(files) : \A i \in 1..Len(files[k].rows) :
            LET c == Canonical(op, files[k].rows[i].number)
            IN  NumDigits(c) < MinDigits(op) =>
                    c \notin (SurvivingKeys \cup AnalysisKeys)

\* the international form: digits only, beginning with 94
InternationalForm(v) ==
    /\ ~isna(v)
    /\ v = OnlyDigits(v)
    /\ startswith(v, <<"9", "4">>)

\* C20: after process_call_logs has standardized and filtered the
\* destination numbers, every surviving 'To Number', and so every phone key
\* of the call analysis, is a digits-only text that begins with 94.
C20_InternationalKeys ==
    (op = "process_call_logs" /\ merged.status = "ok") =>
        /\ \A i \in 1..Len(merged.rows) :
               InternationalForm(merged.rows[i].To_Number)
        /\ \A g \in merged.processed : InternationalForm(g.Phone_Number)

----------------------------------------------------------------------------
(* Classification of file names and column headers.                        *)

MaxWords == 2

\* any(keyword in s for keyword in keywords)
any_in(s, keywords) == \E k \in keywords : Contains(s, k)

lead_keywords ==
    {<<"l", "e", "a", "d">>, <<"p", "r", "o", "s", "p", "e", "c", "t">>,
     <<"c", "o", "n", "t", "a", "c", "t">>,
     <<"c", "u", "s", "t", "o", "m", "e", "r">>}
lead_update_keywords ==
    {<<"u", "p", "d", "a", "t", "e">>,
     <<"u", "p", "d", "a", "t", "e", "d">>}
update_keywords ==
    {<<"u", "p", "d", "a", "t", "e">>,
     <<"f", "o", "l", "l", "o", "w", "u", "p">>,
     <<"s", "t", "a", "t", "u", "s">>,
     <<"p", "r", "o", "g", "r", "e", "s", "s">>}
call_keywords ==
    {<<"c", "a", "l", "l">>, <<"l", "o", "g">>, <<"d", "i", "a", "l">>,
     <<"r", "e", "p", "o", "r", "t">>,
     <<"c", "o", "m", "m", "u", "n", "i", "c", "a", "t", "i", "o", "n">>}

\* The variant that looks for the call keywords before the update keywords.
categorize_file_calls_first(file) ==
    LET filename_lower == lower(file)
    IN  IF any_in(filename_lower, lead_keywords)
        THEN (IF any_in(filename_lower, lead_update_keywords)
              THEN "updates" ELSE "leads")
        ELSE IF any_in(filename_lower, call_keywords) THEN "calls"
        ELSE IF any_in(filename_lower, update_keywords) THEN "updates"
        ELSE "leads"

\* the list DataCleaner.categorize_files appends a file to, by the lower
\* cased base name of the file
categorize_file(file) ==
    LET filename_lower == lower(file)
    IN  IF any_in(filename_lower, lead_keywords)
        THEN (IF any_in(filename_lower, lead_update_keywords)
              THEN "updates" ELSE "leads")
        ELSE IF any_in(filename_lower, update_keywords) THEN "updates"
        ELSE IF any_in(filename_lower, call_keywords) THEN "calls"
        ELSE "leads"

\* DataCleaner.categorize_files: leads_files, updates_files, call_logs_files
categorize_files(file_list) ==
    [category \in {"leads", "updates", "calls"} |->
        SelectSeq(file_list, LAMBDA f : categorize_file(f.name) = category)]

name_patterns ==
    {<<"n", "a", "m", "e">>,
     <<"f", "u", "l", "l", " ", "n", "a", "m", "e">>,
     <<"f", "u", "l", "l", "n", "a", "m", "e">>,
     <<"f", "i", "r", "s", "t", " ", "n", "a", "m", "e">>,
     <<"c", "o", "n", "t", "a", "c", "t", " ", "n", "a", "m", "e">>,
     <<"p", "e", "r", "s", "o", "n">>}
phone_patterns ==
    {<<"p", "h", "o", "n", "e">>, <<"n", "u", "m", "b", "e", "r">>,
     <<"p", "h", "o", "n", "e", " ", "n", "u", "m", "b", "e", "r">>,
     <<"c", "o", "n", "t", "a", "c", "t">>, <<"t", "e", "l">>,
     <<"t", "e", "l", "e", "p", "h", "o", "n", "e">>,
     <<"m", "o", "b", "i", "l", "e">>}
email_patterns ==
    {<<"e", "m", "a", "i", "l">>, <<"e", "-", "m", "a", "i", "l">>,
     <<"m", "a", "i", "l">>, <<"g", "m", "a", "i", "l">>}
city_patterns ==
    {<<"c", "i", "t", "y">>, <<"t", "o", "w", "n">>,
     <<"l", "o", "c", "a", "t", "i", "o", "n">>, <<"a", "r", "e", "a">>,
     <<"d", "i", "s", "t", "r", "i", "c", "t">>}
update_patterns ==
    {<<"u", "p", "d", "a", "t", "e">>,
     <<"f", "o", "l", "l", "o", "w", "u", "p">>,
     <<"f", "o", "l", "l", "o", "w", " ", "u", "p">>,
     <<"s", "t", "a", "t", "u", "s">>, <<"r", "e", "m", "a", "r", "k">>,
     <<"c", "o", "m", "m", "e", "n", "t">>, <<"n", "o", "t", "e">>,
     <<"c", "a", "l", "l">>, <<"f", "o", "l", "l", "o", "w">>,
     <<"w", "e", "e", "k", "e", "n", "d">>}

\* UnifiedProcessor.identify_column_type
identify_column_type(column_name) ==
    LET col_lower == lower(str(column_name))
    IN  IF any_in(col_lower, name_patterns) THEN "Name"
        ELSE IF any_in(col_lower, phone_patterns) THEN "Phone"
        ELSE IF any_in(col_lower, email_patterns) THEN "Email"
        ELSE IF any_in(col_lower, city_patterns) THEN "City"
        ELSE IF any_in(col_lower, update_patterns) THEN "Update"
        ELSE "Other"

\* the column_categories of process_leads: the type of every column
column_categories(columns) ==
    [i \in 1..Len(columns) |-> identify_column_type(columns[i])]

contact_name_patterns ==
    {<<"n", "a", "m", "e">>, <<"f", "u", "l", "l", "n", "a", "m", "e">>,
     <<"c", "o", "n", "t", "a", "c", "t">>,
     <<"c", "u", "s", "t", "o", "m", "e", "r">>,
     <<"p", "e", "r", "s", "o", "n">>}
contact_email_patterns ==
    {<<"e", "m", "a", "i", "l">>, <<"m", "a", "i", "l">>}
contact_phone_patterns ==
    {<<"p", "h", "o", "n", "e">>, <<"m", "o", "b", "i", "l", "e">>,
     <<"n", "u", "m", "b", "e", "r">>,
     <<"c", "o", "n", "t", "a", "c", "t">>,
     <<"p", "h", "o", "n", "e", "n", "u", "m", "b", "e", "r">>}
contact_city_patterns ==
    {<<"c", "i", "t", "y">>, <<"l", "o", "c", "a", "t", "i", "o", "n">>,
     <<"a", "r", "e", "a">>, <<"t", "o", "w", "n">>}

\* the first column, in table order, that holds one of the patterns (0 when
\* there is none): the for/break loops of extract_contact_info
first_column(columns, patterns) ==
    IF \E i \in 1..Len(columns) : any_in(columns[i], patterns)
    THEN CHOOSE i \in 1..Len(columns) :
             /\ any_in(columns[i], patterns)
             /\ \A j \in 1..(i - 1) : ~any_in(columns[j], patterns)
    ELSE 0

\* DataCleaner.extract_contact_info: the column each field is read from
extract_contact_info(columns) ==
    LET cols == [i \in 1..Len(columns) |-> strip(lower(str(columns[i])))]
    IN  [name |-> first_column(cols, contact_name_patterns),
         email |-> first_column(cols, contact_email_patterns),
         phone |-> first_column(cols, contact_phone_patterns),
         city |-> first_column(cols, contact_city_patterns)]

\* the columns of a header row that satisfy Test, in table order
columns_where(columns, Test(_)) ==
    SelectSeq([i \in 1..Len(columns) |-> i], LAMBDA i : Test(columns[i]))

\* STEP 2 of UnifiedProcessor.process_leads for one row: the stripped cell of
\* the first column of type col_type whose cell is neither missing nor
\* blank, '' when there is none
combined_values(columns, cells, col_type) ==
    LET cols == columns_where(columns,
                    LAMBDA c : identify_column_type(c) = col_type)
        filled == SelectSeq(cols,
                      LAMBDA i : ~isna(cells[i]) /\ strip(str(cells[i])) # <<>>)
    IN  IF filled = <<>> THEN <<>> ELSE strip(str(cells[filled[1]]))

\* the Name, Phone, Email and City of new_data for one row
standard_columns(columns, cells) ==
    [col_type \in {"Name", "Phone", "Email", "City"} |->
        combined_values(columns, cells, col_type)]

\* the name, email, phone and city DataCleaner.merge_leads_files reads for
\* one row: the cell of the column extract_contact_info found, None when it
\* found none
contact_values(columns, cells) ==
    LET info == extract_contact_info(columns)
    IN  [f \in {"name", "email", "phone", "city"} |->
            IF info[f] = 0 THEN None ELSE cells[info[f]]]

loader_name_patterns ==
    {<<"n", "a", "m", "e">>, <<"f", "u", "l", "l", "n", "a", "m", "e">>,
     <<"f", "u", "l", "l", " ", "n", "a", "m", "e">>,
     <<"c", "o", "n", "t", "a", "c", "t", " ", "n", "a", "m", "e">>}
loader_email_patterns ==
    {<<"e", "m", "a", "i", "l">>, <<"e", "-", "m", "a", "i", "l">>,
     <<"m", "a", "i", "l">>}
loader_phone_patterns ==
    {<<"p", "h", "o", "n", "e">>, <<"m", "o", "b", "i", "l", "e">>,
     <<"c", "o", "n", "t", "a", "c", "t">>, <<"n", "u", "m", "b", "e", "r">>,
     <<"t", "e", "l", "e", "p", "h", "o", "n", "e">>}
loader_city_patterns ==
    {<<"c", "i", "t", "y">>, <<"l", "o", "c", "a", "t", "i", "o", "n">>,
     <<"a", "r", "e", "a">>}

\* the column_mapping of LeadsProcessor.load_files_from_folder: the
\* standard name a column is renamed to ("None" when it is not renamed)
column_mapping(col) ==
    LET col_lower == lower(str(col))
    IN  IF any_in(col_lower, loader_name_patterns) THEN "Name"
        ELSE IF any_in(col_lower, loader_email_patterns) THEN "Email"
        ELSE IF any_in(col_lower, loader_phone_patterns) THEN "Phone"
        ELSE IF any_in(col_lower, loader_city_patterns) THEN "City"
        ELSE "None"

\* LeadsProcessor.load_files_from_folder for one row: the renamed columns
\* that are kept, each with its cell.  With two columns renamed to 'Phone',
\* self.df['Phone'] is a DataFrame, apply hands standardize_phone_number a
\* whole column, "pd.isna(phone_str) or ..." raises ValueError and the
\* except clause of the method returns False.
load_files_from_folder(columns, cells) ==
    LET kept == columns_where(columns, LAMBDA c : column_mapping(c) # "None")
        phones == columns_where(columns, LAMBDA c : column_mapping(c) = "Phone")
    IN  IF Len(phones) > 1 THEN [status |-> "failed", columns |-> <<>>]
        ELSE [status |-> "ok",
              columns |->
                  [k \in 1..Len(kept) |->
                      [label |-> column_mapping(columns[kept[k]]),
                       cell |-> IF column_mapping(columns[kept[k]]) = "Phone"
                                THEN standardize_phone_number(cells[kept[k]])
                                ELSE cells[kept[k]]]]]

----------------------------------------------------------------------------
(* Classification inputs: words joined into file names and headers.       *)

FileWords ==
    <<<<"l", "e", "a", "d">>, <<"P", "r", "o", "s", "p", "e", "c", "t">>,
     <<"c", "o", "n", "t", "a", "c", "t">>,
     <<"c", "u", "s", "t", "o", "m", "e", "r">>,
     <<"u", "p", "d", "a", "t", "e">>,
     <<"f", "o", "l", "l", "o", "w", "u", "p">>,
     <<"s", "t", "a", "t", "u", "s">>,
     <<"p", "r", "o", "g", "r", "e", "s", "s">>, <<"c", "a", "l", "l">>,
     <<"l", "o", "g">>, <<"d", "i", "a", "l">>,
     <<"r", "e", "p", "o", "r", "t">>,
     <<"c", "o", "m", "m", "u", "n", "i", "c", "a", "t", "i", "o", "n">>,
     <<"d", "a", "t", "a">>>>

HeaderWords ==
    <<<<"N", "a", "m", "e">>, <<"C", "o", "n", "t", "a", "c", "t">>,
     <<"E", "m", "a", "i", "l">>, <<"p", "h", "o", "n", "e">>,
     <<"C", "i", "t", "y">>, <<"s", "t", "a", "t", "u", "s">>,
     <<"c", "a", "l", "l">>, <<"i", "d">>,
     <<"C", "u", "s", "t", "o", "m", "e", "r">>,
     <<"M", "o", "b", "i", "l", "e">>>>

\* the file names of one to MaxWords words: word_word.csv
FileNameInputs ==
    {join(ws, <<"_">>) \o <<".", "c", "s", "v">> :
        ws \in SeqsUpTo(Range(FileWords), MaxWords) \ {<<>>}}

\* the headers of one to MaxWords words
HeaderTexts ==
    {join(ws, <<" ">>) : ws \in SeqsUpTo(Range(HeaderWords), MaxWords) \ {<<>>}}

T_Name == <<"N", "a", "m", "e">>

\* the header rows: one column, or a 'Name' column and a second column
ColumnLists ==
    {<<h>> : h \in HeaderTexts} \cup {<<T_Name, h>> : h \in HeaderTexts}

\* the headers of the tables with one row: two columns, of the same role
\* or of two roles
TableHeaders ==
    {<<"N", "a", "m", "e">>,
     <<"C", "o", "n", "t", "a", "c", "t", " ", "N", "a", "m", "e">>,
     <<"p", "h", "o", "n", "e">>, <<"M", "o", "b", "i", "l", "e">>,
     <<"C", "i", "t", "y">>, <<"E", "m", "a", "i", "l">>}

\* the cells of such a row: missing, blank, padded and plain
TableCells == {NaN, <<" ">>, <<" ", "a", "n", "n", " ">>, T_bob}

Tables ==
    {[kind |-> "table", text |-> <<h1, h2>>, cells |-> <<c1, c2>>] :
        h1 \in TableHeaders, h2 \in TableHeaders,
        c1 \in TableCells, c2 \in TableCells}

InitClassify ==
    /\ header \in {[kind |-> "file", text |-> n] : n \in FileNameInputs}
           \cup {[kind |-> "columns", text |-> c] : c \in ColumnLists}
           \cup Tables
    /\ role = <<>>
    /\ IdlePhone /\ IdleDuration /\ IdleUpdates /\ IdleMerge /\ IdleRun

\* DataCleaner.categorize_files on the file
CategorizeFiles ==
    /\ header.kind = "file" /\ role = <<>>
    /\ role' = <<[op |-> "categorize_files",
                  val |-> categorize_files(<<[name |-> header.text]>>)]>>
    /\ UNCHANGED <<header, run, disk, phone_str, phone_trace, duration_str,
                   duration_out, update_row, update_out, kind, files, op,
                   merged>>

\* STEP 1 of UnifiedProcessor.process_leads on the header row
IdentifyColumnType ==
    /\ header.kind = "columns" /\ role = <<>>
    /\ role' = <<[op |-> "identify_column_type",
                  val |-> column_categories(header.text)]>>
    /\ UNCHANGED <<header, run, disk, phone_str, phone_trace, duration_str,
                   duration_out, update_row, update_out, kind, files, op,
                   merged>>

\* DataCleaner.extract_contact_info on the header row
ExtractContactInfo ==
    /\ header.kind = "columns" /\ role = <<>>
    /\ role' = <<[op |-> "extract_contact_info",
                  val |-> extract_contact_info(header.text)]>>
    /\ UNCHANGED <<header, run, disk, phone_str, phone_trace, duration_str,
                   duration_out, update_row, update_out, kind, files, op,
                   merged>>

\* STEP 1 and 2 of UnifiedProcessor.process_leads on the table
StandardColumns ==
    /\ header.kind = "table" /\ role = <<>>
    /\ role' = <<[op |-> "process_leads",
                  val |-> standard_columns(header.text, header.cells)]>>
    /\ UNCHANGED <<header, run, disk, phone_str, phone_trace, duration_str,
                   duration_out, update_row, update_out, kind, files, op,
                   merged>>

\* the contact fields DataCleaner.merge_leads_files reads from the table
ContactValues ==
    /\ header.kind = "table" /\ role = <<>>
    /\ role' = <<[op |-> "merge_leads_files",
                  val |-> contact_values(header.text, header.cells)]>>
    /\ UNCHANGED <<header, run, disk, phone_str, phone_trace, duration_str,
                   duration_out, update_row, update_out, kind, files, op,
                   merged>>

\* LeadsProcessor.load_files_from_folder on the table
LoadFilesFromFolder ==
    /\ header.kind = "table" /\ role = <<>>
    /\ role' = <<[op |-> "load_files_from_folder",
                  val |-> load_files_from_folder(header.text, header.cells)]>>
    /\ UNCHANGED <<header, run, disk, phone_str, phone_trace, duration_str,
                   duration_out, update_row, update_out, kind, files, op,
                   merged>>

NextClassify ==
    \/ CategorizeFiles
    \/ IdentifyColumnType
    \/ ExtractContactInfo
    \/ StandardColumns
    \/ ContactValues
    \/ LoadFilesFromFolder

SpecClassify == InitClassify /\ [][NextClassify]_vars

----------------------------------------------------------------------------
(* Classification claims.                                                  *)

\* the role of a header by first match in the order Name, Email, Phone,
\* City, Update, else Other
RoleInOrder(column_name) ==
    LET col_lower == strip(lower(column_name))
    IN  IF any_in(col_lower, name_patterns) THEN "Name"
        ELSE IF any_in(col_lower, email_patterns) THEN "Email"
        ELSE IF any_in(col_lower, phone_patterns) THEN "Phone"
        ELSE IF any_in(col_lower, city_patterns) THEN "City"
        ELSE IF any_in(col_lower, update_patterns) THEN "Update"
        ELSE "Other"

ContactFields == {"name", "email", "phone", "city"}

\* C18: every header gets the role of the first match in the order Name,
\* Email, Phone, City, Update, else Other (a header with both "contact" and
\* "email" is Email), and no column is the source of two different
\* canonical fields.
C18_ColumnClassification ==
    role # <<>> =>
        /\ role[1].op = "identify_column_type" =>
               \A i \in 1..Len(header.text) :
                   role[1].val[i] = RoleInOrder(header.text[i])
        /\ role[1].op = "extract_contact_info" =>
               \A f, g \in ContactFields :
                   (f # g /\ role[1].val[f] # 0) =>
                       role[1].val[f] # role[1].val[g]

T_update == <<"u", "p", "d", "a", "t", "e">>

\* the category the keyword rule gives a file name
CategoryByRule(file) ==
    LET n == lower(file)
    IN  IF any_in(n, lead_keywords) /\ ~Contains(n, T_update) THEN "leads"
        ELSE IF any_in(n, update_keywords \cup lead_update_keywords)
             THEN "updates"
        ELSE IF any_in(n, call_keywords) THEN "calls"
        ELSE "leads"

\* C19: every file is placed in exactly one of leads, updates and call logs:
\* leads for a lead keyword without "update", otherwise updates for an
\* update keyword, otherwise call logs for a call keyword, otherwise leads.
C19_FileCategorization ==
    (role # <<>> /\ role[1].op = "categorize_files") =>
        \A c \in {"leads", "updates", "calls"} :
            (\E i \in 1..Len(role[1].val[c]) :
                 role[1].val[c][i].name = header.text)
                <=> c = CategoryByRule(header.text)

\* a file with a lead keyword and "update" was placed in updates, and only
\* there
C19_Witness ==
    /\ role # <<>> /\ role[1].op = "categorize_files"
    /\ any_in(lower(header.text), lead_keywords)
    /\ Contains(lower(header.text), T_update)
    /\ Len(role[1].val["updates"]) = 1
    /\ Len(role[1].val["leads"]) = 0
    /\ Len(role[1].val["calls"]) = 0

----------------------------------------------------------------------------
(* The applications: runs over folders, and the output tables on disk.     *)

MaxRuns == 2

T_csv == <<".", "c", "s", "v">>
T_xlsx == <<".", "x", "l", "s", "x">>
T_xls == <<".", "x", "l", "s">>
T_leads == <<"l", "e", "a", "d", "s">>

\* str.endswith with a tuple of suffixes
endswith(s, suffixes) ==
    \E p \in suffixes : Len(s) >= Len(p) /\ Last(s, Len(p)) = p

\* DataCleaner.find_files: the files below the folder with a table extension
find_files(base_folder) ==
    SelectSeq(base_folder.files,
              LAMBDA f : endswith(f.name, {T_csv, T_xlsx, T_xls}))

\* DataCleaner.process_all_data: leads_df, updates_df, calls_df
process_all_data(base_folder) ==
    LET all_files == find_files(base_folder)
        by_kind == categorize_files(all_files)
    IN  IF all_files = <<>>
        THEN [leads |-> <<>>, updates |-> <<>>, calls |-> <<>>]
        ELSE [leads |-> merge_leads_files(by_kind["leads"]).rows,
              updates |-> merge_updates_files(by_kind["updates"]).rows,
              calls |-> merge_call_logs(by_kind["calls"]).rows]

\* os.path.join(base_output_folder, f"{prefix}_{timestamp}")
join_path(base, prefix, timestamp) ==
    [base |-> base, prefix |-> prefix, timestamp |-> timestamp]

NoFolder == [base |-> "", prefix |-> "", timestamp |-> 0]

\* os.path.exists of a directory
exists(d, output_folder) == \E e \in d : e.dir = output_folder

\* os.makedirs of a directory that does not exist yet
makedirs(d, output_folder) ==
    IF exists(d, output_folder) THEN <<>>
    ELSE <<[dir |-> output_folder, file |-> ".", rows |-> {}]>>

\* df.to_csv / df.to_excel of a table below a directory
to_file(output_folder, file, rows) ==
    <<[dir |-> output_folder, file |-> file, rows |-> rows]>>

\* len(updates_df['phone'].dropna().unique())
contacted_leads(updates_df) ==
    Cardinality({updates_df[i].phone : i \in 1..Len(updates_df)} \ {None})

\* contact_rate, as f"{contact_rate:.1f}%" shows it: in tenths of a percent
contact_rate(leads_df, updates_df) ==
    IF Len(leads_df) > 0
    THEN round2(10 * contacted_leads(updates_df), Len(leads_df))
    ELSE 0

\* DataCleaner._create_overall_performance: the counts of the three tables,
\* the number of employees (every file of a folder has the same one) and
\* the contact rate
overall_performance(leads_df, updates_df, calls_df) ==
    {[Metric |-> "Total Leads", Value |-> Len(leads_df)],
     [Metric |-> "Total Updates", Value |-> Len(updates_df)],
     [Metric |-> "Total Call Logs", Value |-> Len(calls_df)]}
    \cup (IF leads_df # <<>>
          THEN {[Metric |-> "Total Employees", Value |-> 1]} ELSE {})
    \cup (IF leads_df # <<>> /\ updates_df # <<>>
          THEN {[Metric |-> "Contact Rate",
                 Value |-> contact_rate(leads_df, updates_df)]}
          ELSE {})

\* DataCleaner.save_cleaned_data: the output operations it makes, in order
save_cleaned_data(d, base_output_folder, timestamp, leads_df, updates_df, calls_df) ==
    LET output_folder ==
            join_path(base_output_folder, "cleaned_data", timestamp)
    IN  makedirs(d, output_folder)
        \o (IF leads_df # <<>>
            THEN to_file(output_folder, "cleaned_leads.csv", Range(leads_df))
            ELSE <<>>)
        \o (IF updates_df # <<>>
            THEN to_file(output_folder, "cleaned_updates.csv",
                         Range(updates_df))
            ELSE <<>>)
        \o (IF calls_df # <<>>
            THEN to_file(output_folder, "cleaned_call_logs.csv",
                         Range(calls_df))
            ELSE <<>>)
        \o to_file(output_folder, "overall_performance.csv",
                   overall_performance(leads_df, updates_df, calls_df))

\* MetricsCalculator.save_all_reports: the output operations it makes, in
\* order, and the folder it returns. timestamp is the calculator's own, now
\* is the one of the DataCleaner it constructs.
save_all_reports(d, base_output_folder, timestamp, now, leads_df, updates_df, calls_df, call_analysis_df) ==
    LET output_folder ==
            join_path(base_output_folder, "lead_analysis", timestamp)
    IN  [output_folder |-> output_folder,
         steps |->
            makedirs(d, output_folder)
            \o save_cleaned_data(d, base_output_folder, now, leads_df,
                                 updates_df, calls_df)
            \o (IF call_analysis_df # {}
                THEN to_file(output_folder, "call_analysis_table.csv",
                             call_analysis_df)
                ELSE <<>>)]

\* the output operations that can be made to fail: none, the creation of
\* directories, the writing of the leads table
Failures == {"none", "makedirs", "leads"}

LeadsTables == {"cleaned_leads.csv", "Processed_Leads.xlsx"}

\* whether an output operation raises under the failure
raises(step, fail) ==
    \/ fail = "makedirs" /\ step.file = "."
    \/ fail = "leads" /\ step.file \in LeadsTables

\* the position of the first operation that raises, 0 when none does
first_raise(steps, fail) ==
    IF \E i \in 1..Len(steps) : raises(steps[i], fail)
    THEN CHOOSE i \in 1..Len(steps) :
             /\ raises(steps[i], fail)
             /\ \A j \in 1..(i - 1) : ~raises(steps[j], fail)
    ELSE 0

\* the disk after run k made the operations: a file is overwritten
written(d, steps, k) ==
    {e \in d : ~\E i \in 1..Len(steps) :
                   steps[i].dir = e.dir /\ steps[i].file = e.file}
    \cup {[dir |-> steps[i].dir, file |-> steps[i].file,
           rows |-> steps[i].rows, run |-> k] : i \in 1..Len(steps)}

\* glob.glob(os.path.join(folder_path, "*" + suffix))
glob(folder, suffix) ==
    SelectSeq(folder.files, LAMBDA f : endswith(f.name, {suffix}))

\* a file as pd.concat sees it beside call logs: the rows of a table
\* without call-log columns are NaN in each of them
call_columns(f) ==
    IF f.columns = "calls" THEN f
    ELSE [f EXCEPT !.rows = [i \in 1..Len(f.rows) |->
              [name |-> NaN, number |-> NaN, date |-> NaN, time |-> NaN,
               duration |-> NaN]]]

\* UnifiedProcessor.process_call_logs on a folder: every CSV file is read;
\* without a 'To Number' column in any of them dropna raises KeyError,
\* which the method catches
process_call_logs_of(folder) ==
    LET csv_files == glob(folder, T_csv)
    IN  IF csv_files = <<>> THEN Failed
        ELSE IF all_dfs(csv_files) = <<>> THEN Failed
        ELSE IF \A i \in 1..Len(csv_files) :
                    csv_files[i].ok => csv_files[i].columns # "calls"
             THEN Failed
        ELSE CHOOSE result \in
                 {process_call_logs(fs) : fs \in
                     {[i \in 1..Len(csv_files) |->
                          call_columns(csv_files[i])]}} : TRUE

\* UnifiedProcessor.process_leads on a folder: the files with 'leads' in
\* the name
process_leads_of(folder) ==
    LET all_files == glob(folder, T_csv) \o glob(folder, T_xlsx)
                         \o glob(folder, T_xls)
        leads_files ==
            SelectSeq(all_files, LAMBDA f : Contains(lower(f.name), T_leads))
    IN  IF all_files = <<>> THEN Failed
        ELSE IF leads_files = <<>> THEN Failed
        ELSE CHOOSE result \in
                 {process_leads(fs) : fs \in {leads_files}} : TRUE

\* self.processed_call_logs / self.processed_leads: None, or a table
NoTable == [is_none |-> TRUE, table |-> {}]
Table(t) == [is_none |-> FALSE, table |-> t]

\* UnifiedProcessor.process_all_files: the two success flags and the
\* attributes afterwards
process_all_files(self, folder) ==
    CHOOSE result \in
        {[call_logs_success |-> call_logs.status = "ok",
          leads_success |-> leads.status = "ok",
          processed_call_logs |->
              IF call_logs.status = "ok" THEN Table(call_logs.processed)
              ELSE self.processed_call_logs,
          processed_leads |->
              IF leads.status = "ok" THEN Table(Range(leads.rows))
              ELSE self.processed_leads] :
            call_logs \in {process_call_logs_of(folder)},
            leads \in {process_leads_of(folder)}} : TRUE

\* UnifiedProcessor.save_call_logs: dropping the 'Call Dates' column of a
\* table without records raises KeyError, which the method catches
save_call_logs(self, output_folder, fail) ==
    IF self.processed_call_logs.table = {} THEN <<>>
    ELSE to_file(output_folder, "Processed_Call_Logs.xlsx",
                 self.processed_call_logs.table)

\* UnifiedProcessor.save_leads: an exception of to_excel is caught
save_leads(self, output_folder, fail) ==
    IF fail = "leads" THEN <<>>
    ELSE to_file(output_folder, "Processed_Leads.xlsx",
                 self.processed_leads.table)

\* UnifiedProcessor.auto_save_results: the success flag, the folder, the
\* output operations made and the ones that failed
auto_save_results(self, d, base_folder_path, now, fail) ==
    LET output_folder_path == join_path(base_folder_path, "Analysis", now)
        created == makedirs(d, output_folder_path)
        call_logs == IF self.processed_call_logs.is_none THEN <<>>
                     ELSE save_call_logs(self, output_folder_path, fail)
        leads == IF self.processed_leads.is_none THEN <<>>
                 ELSE save_leads(self, output_folder_path, fail)
        failed == (IF ~self.processed_call_logs.is_none /\ call_logs = <<>>
                   THEN {"Processed_Call_Logs.xlsx"} ELSE {})
                  \cup (IF ~self.processed_leads.is_none /\ leads = <<>>
                        THEN {"Processed_Leads.xlsx"} ELSE {})
    IN  IF first_raise(created, fail) # 0
        THEN [success |-> FALSE, output_folder |-> NoFolder, steps |-> <<>>,
              failed |-> {"."}]
        ELSE [success |-> TRUE,
              output_folder |-> output_folder_path,
              steps |-> created \o call_logs \o leads,
              failed |-> failed]

----------------------------------------------------------------------------
(* Folders.                                                                *)

LeadsFile ==
    [name |-> <<"l", "e", "a", "d", "s", ".", "c", "s", "v">>,
     ok |-> TRUE, columns |-> "contact",
     rows |-> <<ContactRows[1]>>]

P0719876543 == <<"0", "7", "1", "9", "8", "7", "6", "5", "4", "3">>

\* follow-up notes on two numbers, one of them of no lead
UpdatesFile ==
    [name |-> <<"s", "t", "a", "t", "u", "s", "_", "u", "p", "d", "a", "t", "e", "s", ".", "x", "l", "s", "x">>,
     ok |-> TRUE, columns |-> "contact",
     rows |-> <<ContactRows[1],
                [ContactRows[2] EXCEPT !.phone = P0719876543]>>]

CallsFile ==
    [name |-> <<"c", "a", "l", "l", "_", "l", "o", "g", ".", "c", "s", "v">>,
     ok |-> TRUE, columns |-> "calls",
     rows |-> <<CallRows[1], CallRows[2]>>]

\* a call log whose only number is too short to be kept
ShortCallsFile ==
    [name |-> <<"c", "a", "l", "l", "_", "s", "h", "o", "r", "t", ".", "c", "s", "v">>,
     ok |-> TRUE, columns |-> "calls", rows |-> <<CallRows[3]>>]

\* a workbook that cannot be read
BrokenLeadsFile ==
    [name |-> <<"l", "e", "a", "d", "s", "_", "o", "l", "d", ".", "x", "l", "s", "x">>,
     ok |-> FALSE, columns |-> "contact", rows |-> <<>>]

NotesFile ==
    [name |-> <<"n", "o", "t", "e", "s", ".", "t", "x", "t">>,
     ok |-> TRUE, columns |-> "none", rows |-> <<>>]

Folders ==
    {[name |-> "notes", files |-> <<NotesFile>>],
     [name |-> "leads", files |-> <<LeadsFile>>],
     [name |-> "calls", files |-> <<CallsFile>>],
     [name |-> "all", files |-> <<LeadsFile, UpdatesFile, CallsFile>>],
     [name |-> "broken", files |-> <<BrokenLeadsFile>>],
     [name |-> "short", files |-> <<ShortCallsFile>>]}

Apps == {"LeadAnalysisApp", "UnifiedApp"}

\* the application after its construction: the clock (in seconds), the
\* timestamp MetricsCalculator took, the processor's attributes, no run yet
InitRun ==
    /\ run \in {[app |-> a, clock |-> 0, timestamp |-> 0,
                 processed_call_logs |-> NoTable,
                 processed_leads |-> NoTable,
                 current_output_folder |-> NoFolder,
                 log |-> <<>>] : a \in Apps}
    /\ disk = {}
    /\ IdlePhone /\ IdleDuration /\ IdleUpdates /\ IdleMerge /\ IdleClassify

\* the run record of process_data and the output operations it completed,
\* given the tables of process_all_data
process_data_saved(self, d, folder, fail, now, t) ==
    IF t.leads = <<>> /\ t.updates = <<>> /\ t.calls = <<>>
    THEN [steps |-> <<>>,
          entry |-> [folder |-> folder, fail |-> fail, tables |-> t,
                     outcome |-> "no data", failed |-> {},
                     output_folder |-> NoFolder]]
    ELSE CHOOSE result \in
        {IF first_raise(saved.steps, fail) = 0
         THEN [steps |-> saved.steps,
               entry |-> [folder |-> folder, fail |-> fail, tables |-> t,
                          outcome |-> "saved", failed |-> {},
                          output_folder |-> saved.output_folder]]
         ELSE [steps |-> SubSeq(saved.steps, 1,
                                first_raise(saved.steps, fail) - 1),
               entry |-> [folder |-> folder, fail |-> fail, tables |-> t,
                          outcome |-> "error",
                          failed |->
                              {saved.steps[first_raise(saved.steps, fail)].file},
                          output_folder |-> NoFolder]] :
            saved \in {save_all_reports(d, "results", self.timestamp, now,
                           t.leads, t.updates, t.calls,
                           generate_call_analysis_table(t.calls))}} : TRUE

\* LeadAnalysisApp.process_data on a folder, dt seconds after the last event
ProcessData ==
    /\ run # <<>> /\ run.app = "LeadAnalysisApp" /\ Len(run.log) < MaxRuns
    /\ \E folder \in Folders :
        \E t \in {process_all_data(folder)} :
        \E fail \in Failures, dt \in {0, 1} :
        \E r \in {process_data_saved(run, disk, folder, fail,
                                     run.clock + dt, t)} :
            /\ run' = [run EXCEPT
                          !.clock = run.clock + dt,
                          !.log = Append(@, r.entry),
                          !.current_output_folder =
                              IF r.entry.outcome = "saved"
                              THEN r.entry.output_folder ELSE @]
            /\ disk' = written(disk, r.steps, Len(run.log) + 1)
    /\ UNCHANGED <<phone_str, phone_trace, duration_str, duration_out,
                   update_row, update_out, kind, files, op, merged, header,
                   role>>

\* the result tables UnifiedApp.process_files puts in its preview
displayed_results(self) ==
    (IF self.processed_call_logs.is_none THEN {}
     ELSE {"Processed_Call_Logs.xlsx"})
    \cup (IF self.processed_leads.is_none THEN {}
          ELSE {"Processed_Leads.xlsx"})

\* UnifiedApp.process_files on a folder, dt seconds after the last event
ProcessFiles ==
    /\ run # <<>> /\ run.app = "UnifiedApp" /\ Len(run.log) < MaxRuns
    /\ \E folder \in Folders :
        \E p \in {process_all_files(run, folder)} :
        \E fail \in Failures, dt \in {0, 1} :
        \E self \in {[run EXCEPT
                        !.clock = run.clock + dt,
                        !.processed_call_logs = p.processed_call_logs,
                        !.processed_leads = p.processed_leads]} :
        \E saved \in {auto_save_results(self, disk, folder.name,
                                        self.clock, fail)} :
        \E entry \in {[folder |-> folder, fail |-> fail,
                       tables |-> [calls |-> p.call_logs_success,
                                   leads |-> p.leads_success]]} :
            IF ~(p.call_logs_success \/ p.leads_success)
            THEN /\ run' = [self EXCEPT !.log = Append(@,
                        entry @@ [outcome |-> "processing failed",
                                  failed |-> {}, displayed |-> {},
                                  output_folder |-> NoFolder])]
                 /\ disk' = disk
            ELSE /\ run' = [self EXCEPT !.log = Append(@,
                        entry @@ [outcome |-> IF saved.success THEN "saved"
                                              ELSE "auto-save failed",
                                  failed |-> saved.failed,
                                  displayed |-> IF saved.success
                                                THEN displayed_results(self)
                                                ELSE {},
                                  output_folder |-> saved.output_folder])]
                 /\ disk' = written(disk, saved.steps, Len(run.log) + 1)
    /\ UNCHANGED <<phone_str, phone_trace, duration_str, duration_out,
                   update_row, update_out, kind, files, op, merged, header,
                   role>>

\* LeadAnalysisApp.reset_app, the 'Process Another Folder' button that
\* show_results offers
ResetApp ==
    /\ run # <<>> /\ run.app = "LeadAnalysisApp"
    /\ run.current_output_folder # NoFolder
    /\ run' = [run EXCEPT !.current_output_folder = NoFolder]
    /\ UNCHANGED <<disk, phone_str, phone_trace, duration_str, duration_out,
                   update_row, update_out, kind, files, op, merged, header,
                   role>>

NextRun ==
    \/ ProcessData
    \/ ProcessFiles
    \/ ResetApp

SpecRun == InitRun /\ [][NextRun]_vars

----------------------------------------------------------------------------
(* Run-level claims.                                                       *)

\* the latest run of the application
LastRun == run.log[Len(run.log)]

\* the tables (not directories) on disk that run k wrote
TablesOf(k) == {e \in disk : e.run = k /\ e.file # "."}

\* C15: every output table of a run of LeadAnalysisApp (cleaned_leads,
\* cleaned_updates, cleaned_call_logs, overall_performance,
\* call_analysis_table) is under one directory, the one save_all_reports
\* returned.
C15_OneOutputDirectory ==
    (run # <<>> /\ run.app = "LeadAnalysisApp" /\ run.log # <<>>
        /\ LastRun.outcome = "saved") =>
        \A e \in TablesOf(Len(run.log)) : e.dir = LastRun.output_folder

\* C16: when the creation of the output directory or the writing of an
\* output table failed, the run is not reported as saved.
C16_OutputErrorsPropagated ==
    (run # <<>> /\ run.log # <<>> /\ LastRun.failed # {}) =>
        LastRun.outcome # "saved"

CleanedTable(c) ==
    CASE c = "leads" -> "cleaned_leads.csv"
      [] c = "updates" -> "cleaned_updates.csv"
      [] c = "calls" -> "cleaned_call_logs.csv"

\* the source files of a category in a folder, as each application finds
\* them
SourcesOf(app, folder, c) ==
    IF app = "LeadAnalysisApp"
    THEN categorize_files(find_files(folder))[c]
    ELSE IF c = "calls" THEN glob(folder, T_csv)
    ELSE SelectSeq(find_files(folder),
                   LAMBDA f : Contains(lower(f.name), T_leads))

\* C17: a run over a folder without source files of a category has an empty
\* result for the category (an empty table of process_all_data, a failure
\* flag of process_call_logs / process_leads), nothing is raised, and no
\* output table is written for the category.
C17_EmptyInput ==
    (run # <<>> /\ run.log # <<>>) =>
        LET k == Len(run.log)
            folder == LastRun.folder
        IN  /\ (run.app = "LeadAnalysisApp" /\ LastRun.fail = "none") =>
                   LastRun.outcome # "error"
            /\ run.app = "LeadAnalysisApp" =>
                   \A c \in {"leads", "updates", "calls"} :
                       SourcesOf(run.app, folder, c) = <<>> =>
                           /\ LastRun.tables[c] = <<>>
                           /\ ~\E e \in TablesOf(k) : e.file = CleanedTable(c)
            /\ run.app = "UnifiedApp" =>
                   /\ SourcesOf(run.app, folder, "calls") = <<>> =>
                          /\ ~LastRun.tables["calls"]
                          /\ ~\E e \in TablesOf(k) :
                                 e.file = "Processed_Call_Logs.xlsx"
                   /\ SourcesOf(run.app, folder, "leads") = <<>> =>
                          /\ ~LastRun.tables["leads"]
                          /\ ~\E e \in TablesOf(k) :
                                 e.file = "Processed_Leads.xlsx"

\* C21: what a run of UnifiedApp saves and displays is the result of that
\* run's processing only: a saved call-log (lead) table holds the groups
\* (records) of the latest folder, and after a failed call-log (lead)
\* processing no call-log (lead) table is saved or displayed.
C21_ResultsNotCarriedOver ==
    (run # <<>> /\ run.app = "UnifiedApp" /\ run.log # <<>>) =>
        /\ \A e \in TablesOf(Len(run.log)) :
               /\ e.file = "Processed_Call_Logs.xlsx" =>
                      /\ LastRun.tables["calls"]
                      /\ e.rows = process_call_logs_of(LastRun.folder).processed
               /\ e.file = "Processed_Leads.xlsx" =>
                      /\ LastRun.tables["leads"]
                      /\ e.rows = Range(process_leads_of(LastRun.folder).rows)
        /\ ~LastRun.tables["calls"] =>
               "Processed_Call_Logs.xlsx" \notin LastRun.displayed
        /\ ~LastRun.tables["leads"] =>
               "Processed_Leads.xlsx" \notin LastRun.displayed

\* C22: a run of LeadAnalysisApp writes its tables into directories that no
\* earlier run of the session wrote into or created.
C22_ExclusiveDirectories ==
    [][(run # <<>> /\ run.app = "LeadAnalysisApp") =>
          \A e \in disk' :
              (e \notin disk /\ e.file # ".") => ~exists(disk, e.dir)]_vars

\* C30: the Contact Rate written to overall_performance is between 0% and
\* 100% (0 and 1000 tenths of a percent), whatever the lead and update
\* tables.
C30_ContactRateRange ==
    \A e \in disk :
        e.file = "overall_performance.csv" =>
            \A m \in e.rows :
                m.Metric = "Contact Rate" => (0 <= m.Value /\ m.Value <= 1000)


----------------------------------------------------------------------------
(* Round trip between the two phone forms.                                 *)

\* a valid domestic number: exactly 10 digits beginning with 0
ValidDomestic(d) ==
    /\ ~isna(d)
    /\ Len(d) = 10
    /\ d[1] = "0"
    /\ \A j \in 1..Len(d) : d[j] \in Digits

\* C28: for every valid domestic number d (10 digits beginning with 0),
\* clean_phone_number(standardize_phone_number(d)) is d again, also when the
\* last digit of d is 0.
C28_RoundTrip ==
    \A i \in 1..(Len(phone_trace) - 1) :
        (/\ phone_trace[i].op = "standardize"
         /\ phone_trace[i + 1].op = "clean"
         /\ ValidDomestic(phone_trace[i].arg))
            => phone_trace[i + 1].val = phone_trace[i].arg


----------------------------------------------------------------------------
(* Leads without a key.                                                    *)

\* C29: two lead rows with different names whose cleaned phone and cleaned
\* email are both empty are both retained by merge_leads_files.
C29_KeylessLeadsRetained ==
    op = "merge_leads_files" =>
        LET pre == cleaned_leads(files)
        IN  \A i, j \in 1..Len(pre) :
                (/\ pre[i].name # pre[j].name
                 /\ pre[i].phone = None /\ pre[i].email = None
                 /\ pre[j].phone = None /\ pre[j].email = None)
                    => /\ \E k \in 1..Len(merged.rows) : merged.rows[k] = pre[i]
                       /\ \E k \in 1..Len(merged.rows) : merged.rows[k] = pre[j]


----------------------------------------------------------------------------
(* Average time per call.                                                  *)

\* the surviving call records with phone p whose parsed duration is
\* strictly positive
PositiveRowsOfPhone(p) ==
    {i \in RowsOfPhone(p) : RowSeconds(merged.rows[i]) > 0}

\* C24: in the table of MetricsCalculator the average time per call of a
\* phone is its total duration divided by the number of its rows whose
\* parsed duration is strictly positive (rounded to hundredths of a
\* second); rows of duration zero still count in the call count; the
\* average is 0 when no row has a positive duration.
C24_AvgTimePerCall ==
    op = "generate_call_analysis_table" =>
        \A g \in merged.processed :
                LET rows == RowsOfPhone(g.phone)
                    positive == PositiveRowsOfPhone(g.phone)
                IN  /\ g.no_of_times_called = Cardinality(rows)
                    /\ positive = {} => g.time.avg_time_per_call_seconds = 0
                    /\ positive # {} =>
                           g.time.avg_time_per_call_seconds =
                               round2(g.time.total_time_spent_seconds,
                                      Cardinality(positive))

\* a phone of three calls, one of them of duration zero, whose average is
\* taken over the two positive ones
C24_Witness ==
    /\ op = "generate_call_analysis_table"
    /\ \E g \in merged.processed :
           /\ g.no_of_times_called = 3
           /\ Cardinality(PositiveRowsOfPhone(g.phone)) = 2
           /\ g.time.total_time_spent_seconds = 120
           /\ g.time.avg_time_per_call_seconds = 6000

\* a phone whose calls all have duration zero
C24_WitnessNone ==
    /\ op = "generate_call_analysis_table"
    /\ \E g \in merged.processed :
           /\ g.no_of_times_called >= 1
           /\ PositiveRowsOfPhone(g.phone) = {}
           /\ g.time.avg_time_per_call_seconds = 0


----------------------------------------------------------------------------
(* First and last call of a group.                                         *)

\* C23: in the records of process_call_logs the first and the last call of
\* a phone group are the least and the greatest of the group's non-null
\* timestamps, and null when it has none; a row whose timestamp did not
\* parse is counted in the group's calls but changes neither first/last nor
\* the average gap (the mean difference of the consecutive non-null
\* timestamps, in hours), wherever it stands in the group.
C23_FirstLastCall ==
    (op = "process_call_logs" /\ merged.status = "ok") =>
        \A g \in merged.processed :
            LET ts == GroupTimestamps(g.Phone_Number)
                gaps == diff(ts)
            IN  /\ g.Total_Calls = Cardinality(RowsOfPhone(g.Phone_Number))
                /\ IF ts = <<>>
                   THEN g.First_Call_Date = NaT /\ g.Last_Call_Date = NaT
                   ELSE /\ g.First_Call_Date # NaT
                        /\ g.Last_Call_Date # NaT
                        /\ Hours(g.First_Call_Date) = ts[1]
                        /\ Hours(g.Last_Call_Date) = ts[Len(ts)]
                /\ g.Avg_Gap = Value(IF gaps = <<>> THEN 0
                                     ELSE round2(SumSeq(gaps), Len(gaps)))


----------------------------------------------------------------------------
(* Name of a group.                                                        *)

\* the name cell of a surviving call record, the name of an analysis record
RowName(r) == IF op = "process_call_logs" THEN r.Name ELSE r.name
GroupName(g) == IF op = "process_call_logs" THEN g.Name ELSE g.name

\* the non-empty names of the surviving call records with phone p, in the
\* order of the table
NamesOfPhone(p) ==
    LET R == merged.rows
        mine == SelectSeq([i \in 1..Len(R) |-> i],
                          LAMBDA i : RowPhone(R[i]) = p /\ ~Blank(RowName(R[i])))
    IN  [k \in 1..Len(mine) |-> RowName(R[mine[k]])]

\* C25: the name of a phone group is the most frequent non-empty name among
\* the group's rows; of several names of the highest frequency it is the
\* one that occurs first in the group; a group without a name is named
\* "Unknown".
C25_GroupName ==
    (op \in {"process_call_logs", "generate_call_analysis_table"}
     /\ merged.status = "ok") =>
        \A g \in merged.processed :
            LET ns == NamesOfPhone(GroupPhone(g))
                most == {i \in 1..Len(ns) :
                            \A j \in 1..Len(ns) : count_of(ns, ns[j]) <= count_of(ns, ns[i])}
            IN  IF ns = <<>> THEN GroupName(g) = T_Unknown
                ELSE GroupName(g) = ns[CHOOSE i \in most : \A j \in most : i <= j]


----------------------------------------------------------------------------
(* Timeline of a group.                                                    *)

\* the Time cell of a surviving call record, and the timeline of an
\* analysis record
RowTime(r) == IF op = "process_call_logs" THEN r.Time ELSE r.time
GroupTimeline(g) ==
    IF op = "process_call_logs" THEN g.All_Dates_Times ELSE g.dates_times_called

\* the timeline entry of a call record: its day and its time field
RowEntry(r) ==
    [day |-> IF RowDate(r) \in KnownDates THEN Hours(RowDate(r)) \div 24
             ELSE UnknownDate,
     time |-> str(RowTime(r))]

\* whether record a may stand before record b in a chronological timeline
\* that has the unknown dates last
MayPrecede(a, b) ==
    \/ RowDate(b) \notin KnownDates
    \/ /\ RowDate(a) \in KnownDates
       /\ Hours(RowDate(a)) <= Hours(RowDate(b))

\* the orders of the surviving call records with phone p that are
\* chronological, unknown dates last
ChronologicalOrders(p) ==
    {o \in [1..Cardinality(RowsOfPhone(p)) -> RowsOfPhone(p)] :
        /\ \A i, j \in DOMAIN o : i # j => o[i] # o[j]
        /\ \A i, j \in DOMAIN o :
               i < j => MayPrecede(merged.rows[o[i]], merged.rows[o[j]])}

\* C26: the timeline of a phone group has one entry per call row of the
\* group, "YYYY-MM-DD <time>" or "Unknown Date <time>" when the date did
\* not parse, in chronological order with the unknown dates after all
\* known ones, whatever the order in which the rows were loaded.
C26_Timeline ==
    (op \in {"process_call_logs", "generate_call_analysis_table"}
     /\ merged.status = "ok") =>
        \A g \in merged.processed :
            \E o \in ChronologicalOrders(GroupPhone(g)) :
                GroupTimeline(g) = [k \in DOMAIN o |-> RowEntry(merged.rows[o[k]])]


----------------------------------------------------------------------------
(* Several columns of one role.                                            *)

\* the stripped cell of the first of the columns cols (in table order)
\* whose cell is non-empty, '' when all are empty
FirstNonEmpty(cols, cells) ==
    LET filled == SelectSeq(cols, LAMBDA i : ~Blank(cells[i]))
    IN  IF filled = <<>> THEN <<>> ELSE strip(str(cells[filled[1]]))

\* the patterns by which extract_contact_info recognises the columns of a
\* field
ContactPatterns(f) ==
    CASE f = "name" -> contact_name_patterns
      [] f = "email" -> contact_email_patterns
      [] f = "phone" -> contact_phone_patterns
      [] f = "city" -> contact_city_patterns

\* C27: when a table has several columns of the same role (Name, Email,
\* Phone or City), the field of a row is the trimmed value of the first of
\* them, in table order, whose cell is non-empty for the row, and empty only
\* when all of them are empty; the processing of such a table does not fail.
C27_FirstNonEmptyColumn ==
    (role # <<>> /\ header.kind = "table") =>
        LET columns == header.text
            cells == header.cells
        IN  /\ role[1].op = "process_leads" =>
                   \A t \in {"Name", "Phone", "Email", "City"} :
                       role[1].val[t] =
                           FirstNonEmpty(columns_where(columns,
                               LAMBDA c : identify_column_type(c) = t), cells)
            /\ role[1].op = "merge_leads_files" =>
                   \A f \in ContactFields :
                       LET first == FirstNonEmpty(columns_where(columns,
                                        LAMBDA c : any_in(strip(lower(c)),
                                                          ContactPatterns(f))), cells)
                           v == role[1].val[f]
                       IN  IF first = <<>> THEN Blank(v)
                           ELSE ~Blank(v) /\ strip(str(v)) = first
            /\ role[1].op = "load_files_from_folder" =>
                   role[1].val.status = "ok"

====
